---------------------------- MODULE Spec2Model ----------------------------
(***************************************************************************)
(* A model of rinzler's concurrent crawler (rinzler-scanner/src/crawler.rs), *)
(* of its driver execute_crawl (rinzler-core/src/crawl.rs), of the fuzzer   *)
(* execute_fuzz (rinzler-core/src/fuzz.rs), of the store                    *)
(* (rinzler-core/src/data.rs), of the passive analyzers                     *)
(* (rinzler-core/src/security.rs) and of the persistence step of            *)
(* handle_crawl (rinzler/src/handlers.rs).                                  *)
(*                                                                         *)
(* A URL string is a record [host, path]: host is the sequence of the      *)
(* host's characters, path is "" only for a seed written without a path    *)
(* (http://b.c), which Url::parse reads as path "/" but which the crawler   *)
(* stores in visited and in the queue as the string it was given.           *)
(***************************************************************************)
EXTENDS Integers, Sequences, FiniteSets, TLC

(***************************************************************************)
(* Bounds of the model.                                                    *)
(***************************************************************************)
MaxWorkers == 2
MaxDepthArg == 2
MaxSeeds == 2

(***************************************************************************)
(* Program constants.                                                      *)
(***************************************************************************)
MAX_EMPTY_ITERATIONS == 10

(***************************************************************************)
(* Hosts, URLs and hrefs.                                                  *)
(***************************************************************************)
HostB == <<"b", ".", "c">>
HostSub == <<"a", ".", "b", ".", "c">>
HostLook == <<"a", "b", ".", "c">>
HostX == <<"x", ".", "y">>

Url(h, p) == [host |-> h, path |-> p]
NoUrl == [host |-> <<>>, path |-> "none"]
BadUrl == [host |-> <<>>, path |-> "not a url"]

parse_unchecked(u) == TRUE

\* Url::parse: fails on a string that is no URL; an empty path reads as "/".
ParseOk(u) == u.host # <<>>
UrlParse(u) == IF u.path = "" THEN Url(u.host, "/") ELSE u

Rel(p) == [kind |-> "rel", host |-> <<>>, path |-> p, frag |-> FALSE]
Abs(h, p) == [kind |-> "abs", host |-> h, path |-> p, frag |-> FALSE]
AbsFrag(h, p) == [kind |-> "abs", host |-> h, path |-> p, frag |-> TRUE]
SkipHref == [kind |-> "skip", host |-> <<>>, path |-> "#top", frag |-> TRUE]

EndsWith(s, suf) ==
    /\ Len(s) >= Len(suf)
    /\ SubSeq(s, Len(s) - Len(suf) + 1, Len(s)) = suf

resolve_url_static(base, href) ==
    IF href.kind = "skip" THEN NoUrl
    ELSE IF ~ParseOk(base) THEN NoUrl
    ELSE IF href.kind = "rel" THEN Url(UrlParse(base).host, href.path)
    ELSE Url(href.host, href.path)

is_same_domain_no_dot(url, base_domain) ==
    /\ ParseOk(url)
    /\ EndsWith(url.host, base_domain)

is_same_domain_static(url, base_domain) ==
    /\ ParseOk(url)
    /\ \/ url.host = base_domain
       \/ EndsWith(url.host, <<".">> \o base_domain)


(***************************************************************************)
(* The servers the crawler talks to: the hrefs of the page at each URL.    *)
(* Site 1 fans out from the root, repeats a link, links back to the root   *)
(* and reaches /3 from two pages; site 2 links to a subdomain, to a        *)
(* look-alike host and to a foreign host from two pages that can be parsed *)
(* at the same time.                                                       *)
(***************************************************************************)
Sites == {1, 2}

PageLinks(s, page) ==
    IF s = 1 THEN
        CASE page = Url(HostB, "/") ->
                 <<Rel("/1"), Rel("/2"), Rel("/1"), AbsFrag(HostB, "/")>>
          [] page = Url(HostB, "/1") -> <<Rel("/2"), Rel("/3")>>
          [] page = Url(HostB, "/2") -> <<Rel("/3")>>
          [] OTHER -> <<>>
    ELSE
        CASE page = Url(HostB, "/") ->
                 <<Abs(HostSub, "/"), Rel("/1"), Abs(HostLook, "/"), SkipHref>>
          [] page = Url(HostSub, "/") -> <<Abs(HostX, "/")>>
          [] page = Url(HostB, "/1") -> <<Abs(HostX, "/1"), Abs(HostX, "/")>>
          [] OTHER -> <<>>

SeedChoices == {Url(HostB, "/"), Url(HostB, ""), Url(HostX, "/"), BadUrl}

RECURSIVE SeqsUpTo(_, _)
SeqsUpTo(S, n) ==
    IF n = 0 THEN {<<>>}
    ELSE LET shorter == SeqsUpTo(S, n - 1)
         IN  shorter \cup {Append(q, x) : q \in {r \in shorter : Len(r) = n - 1}, x \in S}

FollowModes == {"Disabled", "Prompt", "Auto"}

(***************************************************************************)
(* State.                                                                  *)
(***************************************************************************)
VARIABLES
    site,               \* which server answers (environment)
    urls,               \* CrawlOptions.urls: the seeds
    threads,            \* CrawlOptions.threads
    max_depth,          \* Crawler.max_depth
    follow_mode,        \* CrawlOptions.follow_mode
    show_progress_bars, \* CrawlOptions.show_progress_bars
    auto_follow,        \* Crawler.auto_follow
    dpc,                \* execute_crawl's position: "call", "join", "finished"
    idx,                \* execute_crawl's loop index into urls (1-based)
    all_results,        \* execute_crawl's all_results
    visited,            \* Crawler.visited
    results,            \* Crawler.results
    base_domain,        \* crawl's base_domain
    worker_queues,      \* crawl's worker_queues: worker -> sequence of (url, depth)
    pc,                 \* each worker's position
    item,               \* each worker's (url, depth)
    empty_iterations,   \* each worker's empty_iterations
    scan_i,             \* all_queues_empty's position in the queue list
    href_i,             \* extract_elements_static's position in the page's hrefs
    links,              \* extract_elements_static's links
    new_urls,           \* the links still to distribute
    target_worker,      \* each worker's target_worker
    approved,           \* domain_decisions.0
    denied,             \* domain_decisions.1
    decisions_lock,     \* holder of the domain_decisions mutex, or Free
    oracle_calls,       \* history: how often the user was asked, per domain
    fetch_log,          \* history: bag of (worker, url, depth) sent to the server
    enq_log             \* history: bag of (url, depth, target) pushed on a queue

VARIABLES
    base_urls,          \* FuzzOptions.base_urls
    wordlist,           \* FuzzOptions.wordlist
    f_threads,          \* FuzzOptions.threads
    db_path,            \* FuzzOptions.db_path: "None" or "Some"
    db_rows,            \* the url column of the store's nodes, in row order
    server,             \* which server answers the fuzzer (environment)
    fdpc,               \* execute_fuzz's position: "start", "join", "ok", "err"
    f_results,          \* execute_fuzz's results
    hits_display,       \* execute_fuzz's hits_display
    f_queues,           \* execute_fuzz's worker_queues: worker -> sequence of (url, source)
    tested_urls,        \* execute_fuzz's tested_urls
    fpc,                \* each fuzz worker's position
    f_item,             \* each fuzz worker's (url, source)
    f_status,           \* each fuzz worker's result.status_code
    steal_i,            \* try_steal_fuzz_work's target_id
    fscan_i,            \* all_fuzz_queues_empty's position in the queue list
    req_log,            \* history: bag of (worker, url) sent to the server
    f_err,              \* the Err execute_fuzz returned, or "none"
    db_opened,          \* history: query_database_endpoints opened the store
    urls_built,         \* history: how many candidate URLs build_test_url built
    producers           \* history: the workers that pushed a result

VARIABLES
    crawl_ret,          \* what Crawler::crawl returned last: "none", "Ok", "InvalidUrl"
    exec_ret,           \* what execute_crawl returned: "none", "Ok", "Err"
    ui_quit,            \* run_monitor has left its loop on q, Esc or Ctrl+C
    result_cb_log       \* history: the results handed to the per-result callback

VARIABLES
    crawl_sessions,     \* rows of table crawl_sessions: [id, status, end_time]
    maps,               \* rows of table maps: [id, session_id]
    nodes,              \* rows of table nodes: [id, map_id, url, domain]
    edges,              \* rows of table edges: [id, map_id, source_node_id, target_node_id, edge_type]
    findings,           \* rows of table findings: [id, session_id, node_id, severity, title, false_positive]
    technologies,       \* rows of table technologies: [id, node_id]
    http_transactions,  \* rows of table http_transactions: [id, session_id, node_id]
    db_seq,             \* the next uuid and the AUTOINCREMENT sequence of each table
    db_now,             \* current_timestamp()
    db_ret,             \* what the last Database call returned: [ok, id]
    io_faults           \* how many more calls the storage may fail (environment)

VARIABLES
    hpc,                \* handle_crawl's position
    session_id,         \* handle_crawl's session_id
    map_id,             \* handle_crawl's map_id
    h_results,          \* handle_crawl's all_results
    result_i,           \* handle_crawl's position in all_results (1-based)
    h_findings,         \* the findings of the current result still to insert
    findings_count,     \* handle_crawl's findings_count
    exit_code,          \* std::process::exit's argument as text, or "none"
    persist_log         \* history: per result, the node id and the finding ids stored

VARIABLES
    a_result,           \* the CrawlResult under analysis
    a_node_id,          \* the node_id handed to the analyzer
    a_findings,         \* what the analyzer returned
    a_done              \* which analyzer has run: "none", "files", "all"

VARIABLES
    p_call,             \* which library function was called: "none", "build", "load", "reload"
    p_base,             \* build_test_url's base_url
    p_word,             \* build_test_url's word
    p_file,             \* the wordlist file: its characters, or "unreadable"
    p_ret               \* what the function returned

VARIABLES
    l_cmd,              \* whose locks are followed: "none", "crawl", "fuzz"
    l_bars,             \* show_progress_bars: hits_pb is Some
    l_owner,            \* each mutex's holder, or Free
    l_pc,               \* each task's position: a lock().await site or a step between
    l_in,               \* each task: the guard of its site is acquired
    l_idx,              \* each task's target_id, scan position or target_worker
    l_len,              \* the length of each worker queue
    l_todo,             \* each crawl worker's new_urls still to distribute
    l_empty,            \* each crawl worker's empty_iterations
    l_budget,           \* how many more items the run discovers
    l_order             \* history: (held, acquired, task) of each nested acquisition

store_state == <<crawl_sessions, maps, nodes, edges, findings, technologies,
                 http_transactions, db_seq, db_now, db_ret, io_faults>>
handler == <<hpc, session_id, map_id, h_results, result_i, h_findings, findings_count,
             exit_code, persist_log>>
analyzer == <<a_result, a_node_id, a_findings, a_done>>
library == <<p_call, p_base, p_word, p_file, p_ret>>
locking == <<l_cmd, l_bars, l_owner, l_pc, l_in, l_idx, l_len, l_todo, l_empty, l_budget,
             l_order>>
persist == <<store_state, handler, analyzer, library, locking>>

fuzz_state == <<base_urls, wordlist, f_threads, db_path, db_rows, server, fdpc, f_results,
                hits_display, f_queues, tested_urls, fpc, f_item, f_status, steal_i,
                fscan_i, req_log, f_err, db_opened, urls_built, producers>>

inputs == <<site, urls, threads, max_depth, follow_mode, show_progress_bars, auto_follow>>
driver == <<dpc, idx, all_results>>
shared == <<visited, results, base_domain, worker_queues>>
locals == <<pc, item, empty_iterations, scan_i, href_i, links, new_urls, target_worker>>
decisions == <<approved, denied, decisions_lock, oracle_calls>>
history == <<fetch_log, enq_log>>
outcome == <<crawl_ret, exec_ret, ui_quit, result_cb_log>>
crawl_state == <<inputs, driver, shared, locals, decisions, history, outcome, persist>>
vars == <<crawl_state, fuzz_state>>

Workers == 0 .. (threads - 1)
Free == -1
NoItem == [url |-> NoUrl, depth |-> 0]

BagAdd(b, e) ==
    IF e \in DOMAIN b THEN [b EXCEPT ![e] = @ + 1]
    ELSE [x \in DOMAIN b \cup {e} |-> IF x = e THEN 1 ELSE b[x]]


NULL == 0
NoRet == [call |-> "none", ok |-> TRUE, id |-> NULL, err |-> "none"]

\* A URL string as the store and the analyzers read it: scheme, host, path and
\* query, each a sequence of characters; a string that is no URL has no scheme.
SUrl(scheme, host, path, query) == [scheme |-> scheme, host |-> host, path |-> path, query |-> query]
NoResult == [url |-> SUrl("", <<>>, <<>>, <<>>), status_code |-> 0]

\* A store file that Database::new has just created: every table is empty.
StoreEmpty ==
    /\ crawl_sessions = {}
    /\ maps = {}
    /\ nodes = {}
    /\ edges = {}
    /\ findings = {}
    /\ technologies = {}
    /\ http_transactions = {}
    /\ db_seq = [uuid |-> 1, nodes |-> 1, edges |-> 1, findings |-> 1,
                 technologies |-> 1, http_transactions |-> 1]
    /\ db_now = 1
    /\ db_ret = NoRet

\* handle_crawl is not running.
HandlerIdle ==
    /\ hpc = "idle"
    /\ session_id = NULL
    /\ map_id = NULL
    /\ h_results = <<>>
    /\ result_i = 0
    /\ h_findings = <<>>
    /\ findings_count = 0
    /\ exit_code = "none"
    /\ persist_log = <<>>

\* No analyzer is running.
AnalyzerIdle ==
    /\ a_result = NoResult
    /\ a_node_id = 0
    /\ a_findings = <<>>
    /\ a_done = "none"

\* Neither build_test_url nor load_wordlist has been called on its own.
LibraryIdle ==
    /\ p_call = "none"
    /\ p_base = <<>>
    /\ p_word = <<>>
    /\ p_file = <<>>
    /\ p_ret = <<>>

\* No lock is followed.
LockIdle ==
    /\ l_cmd = "none"
    /\ l_bars = FALSE
    /\ l_owner = <<>>
    /\ l_pc = <<>>
    /\ l_in = <<>>
    /\ l_idx = <<>>
    /\ l_len = <<>>
    /\ l_todo = <<>>
    /\ l_empty = <<>>
    /\ l_budget = 0
    /\ l_order = {}

PersistIdle ==
    StoreEmpty /\ io_faults = 0 /\ HandlerIdle /\ AnalyzerIdle /\ LibraryIdle /\ LockIdle

\* The fuzzer is not running.
FuzzIdle ==
    /\ base_urls = <<>>
    /\ wordlist = <<>>
    /\ f_threads = 0
    /\ db_path = "None"
    /\ db_rows = <<>>
    /\ server = 0
    /\ fdpc = "idle"
    /\ f_results = <<>>
    /\ hits_display = <<>>
    /\ f_queues = <<>>
    /\ tested_urls = {}
    /\ fpc = <<>>
    /\ f_item = <<>>
    /\ f_status = <<>>
    /\ steal_i = <<>>
    /\ fscan_i = <<>>
    /\ req_log = << >>
    /\ f_err = "none"
    /\ db_opened = FALSE
    /\ urls_built = 0
    /\ producers = {}

(***************************************************************************)
(* Initial states: execute_crawl has built its Crawler (Crawler::new, then *)
(* with_max_depth, with_auto_follow(false) and the callbacks) and is about *)
(* to crawl the first seed.  No worker exists yet.                         *)
(***************************************************************************)
InitOf(seedLists, threadCounts, autoFollows) ==
    /\ site \in Sites
    /\ urls \in seedLists
    /\ threads \in threadCounts
    /\ max_depth \in 0 .. MaxDepthArg
    /\ follow_mode \in (IF site = 1 THEN {"Disabled"} ELSE FollowModes)
    /\ show_progress_bars \in (IF follow_mode = "Prompt" THEN BOOLEAN ELSE {FALSE})
    /\ auto_follow \in autoFollows
    /\ dpc = "call"
    /\ idx = 1
    /\ all_results = <<>>
    /\ visited = {}
    /\ results = <<>>
    /\ base_domain = <<>>
    /\ worker_queues = [w \in Workers |-> <<>>]
    /\ pc = [w \in Workers |-> "idle"]
    /\ item = [w \in Workers |-> NoItem]
    /\ empty_iterations = [w \in Workers |-> 0]
    /\ scan_i = [w \in Workers |-> 0]
    /\ href_i = [w \in Workers |-> 0]
    /\ links = [w \in Workers |-> <<>>]
    /\ new_urls = [w \in Workers |-> <<>>]
    /\ target_worker = [w \in Workers |-> 0]
    /\ approved = {}
    /\ denied = {}
    /\ decisions_lock = Free
    /\ oracle_calls = << >>
    /\ fetch_log = << >>
    /\ enq_log = << >>
    /\ crawl_ret = "none"
    /\ exec_ret = "none"
    /\ ui_quit = FALSE
    /\ result_cb_log = << >>
    /\ PersistIdle
    /\ FuzzIdle

\* execute_crawl's crawler: with_auto_follow(false).
InitWith(seedLists, threadCounts) == InitOf(seedLists, threadCounts, {FALSE})

\* One seed, any number of workers.
Init == InitWith({<<u>> : u \in SeedChoices}, 1 .. MaxWorkers)

\* A crawl of site 2 that follows every link: execute_crawl's crawler in
\* follow mode Auto, or a crawler built with_auto_follow(true).
AutoInit ==
    /\ InitOf({<<Url(HostB, "/")>>}, 1 .. MaxWorkers, BOOLEAN)
    /\ site = 2
    /\ (auto_follow \/ follow_mode = "Auto")

\* Several seeds crawled one after another on a single worker.
ScanInit == InitWith(SeqsUpTo(SeedChoices, MaxSeeds) \ {<<>>}, {1})

mark_visited_dropped(vis, url) == vis

\* visited.insert(url)
mark_visited(vis, url) == vis \cup {url}

lock_not_exclusive(holder) == TRUE

\* domain_decisions.lock() returns once no other caller holds the mutex.
lock_acquired(holder) == holder = Free

(***************************************************************************)
(* Crawler::crawl up to the spawning of the workers, as called from        *)
(* execute_crawl's loop; an unparseable seed makes crawl return InvalidUrl, *)
(* which execute_crawl reports and passes over.                            *)
(***************************************************************************)
CrawlStart ==
    /\ dpc = "call"
    /\ idx <= Len(urls)
    /\ LET start_url == urls[idx] IN
       IF ~ParseOk(start_url) THEN
           /\ idx' = idx + 1
           /\ crawl_ret' = "InvalidUrl"
           /\ UNCHANGED <<dpc, all_results, shared, locals, history>>
       ELSE
           /\ base_domain' = UrlParse(start_url).host
           /\ visited' = mark_visited(visited, start_url)
           /\ worker_queues' =
                 [w \in Workers |->
                     IF w = 0 THEN <<[url |-> start_url, depth |-> 0]>> ELSE <<>>]
           /\ enq_log' = BagAdd(enq_log, [url |-> start_url, depth |-> 0, target |-> 0])
           /\ pc' = [w \in Workers |-> "pop"]
           /\ empty_iterations' = [w \in Workers |-> 0]
           /\ dpc' = "join"
           /\ UNCHANGED <<idx, all_results, results, fetch_log, crawl_ret,
                          item, scan_i, href_i, links, new_urls, target_worker>>
    /\ UNCHANGED <<fuzz_state, persist, inputs, decisions, exec_ret, ui_quit, result_cb_log>>

\* crawl returns results.clone() once every worker handle is joined;
\* execute_crawl extends all_results with it.
CrawlReturn ==
    /\ dpc = "join"
    /\ \A w \in Workers : pc[w] = "done"
    /\ all_results' = all_results \o results
    /\ idx' = idx + 1
    /\ dpc' = "call"
    /\ pc' = [w \in Workers |-> "idle"]
    /\ crawl_ret' = "Ok"
    /\ UNCHANGED <<fuzz_state, persist, inputs, exec_ret, ui_quit, result_cb_log, shared, decisions, history,
                   item, empty_iterations, scan_i, href_i, links, new_urls, target_worker>>

ExecuteCrawlReturn ==
    /\ dpc = "call"
    /\ idx > Len(urls)
    /\ dpc' = "finished"
    /\ exec_ret' = "Ok"
    /\ UNCHANGED <<fuzz_state, persist, inputs, crawl_ret, ui_quit, result_cb_log, idx, all_results, shared, locals, decisions, history>>

(***************************************************************************)
(* The worker loop of Crawler::crawl.                                      *)
(***************************************************************************)
depth_limit_off_by_one(depth) == depth > max_depth

\* The depth limit of the worker loop.
depth_limit_reached(depth) == depth >= max_depth

\* queue.pop_front() on the worker's own queue, then the depth check and the
\* progress callback.
PopFront(w) ==
    /\ pc[w] = "pop"
    /\ IF worker_queues[w] # <<>> THEN
           LET it == Head(worker_queues[w]) IN
           /\ worker_queues' = [worker_queues EXCEPT ![w] = Tail(@)]
           /\ empty_iterations' = [empty_iterations EXCEPT ![w] = 0]
           /\ IF depth_limit_reached(it.depth) THEN
                  UNCHANGED <<pc, item, fetch_log>>
              ELSE
                  /\ item' = [item EXCEPT ![w] = it]
                  /\ fetch_log' = BagAdd(fetch_log, [w |-> w, url |-> it.url, depth |-> it.depth])
                  /\ pc' = [pc EXCEPT ![w] = "fetch"]
           /\ UNCHANGED scan_i
       ELSE
           /\ pc' = [pc EXCEPT ![w] = "scan"]
           /\ scan_i' = [scan_i EXCEPT ![w] = 0]
           /\ UNCHANGED <<worker_queues, empty_iterations, item, fetch_log>>
    /\ UNCHANGED <<fuzz_state, persist, inputs, outcome, driver, visited, results, base_domain, decisions, enq_log,
                   href_i, links, new_urls, target_worker>>

\* One iteration of all_queues_empty's loop: lock queue scan_i, look, unlock.
\* When the call returns, the worker counts, exits or sleeps and retries.
all_queues_empty(w) ==
    /\ pc[w] = "scan"
    /\ IF worker_queues[scan_i[w]] # <<>> THEN
           /\ empty_iterations' = [empty_iterations EXCEPT ![w] = 0]
           /\ pc' = [pc EXCEPT ![w] = "pop"]
           /\ scan_i' = [scan_i EXCEPT ![w] = 0]
       ELSE IF scan_i[w] + 1 < threads THEN
           /\ scan_i' = [scan_i EXCEPT ![w] = @ + 1]
           /\ UNCHANGED <<pc, empty_iterations>>
       ELSE
           /\ empty_iterations' = [empty_iterations EXCEPT ![w] = @ + 1]
           /\ pc' = [pc EXCEPT ![w] =
                        IF empty_iterations[w] + 1 >= MAX_EMPTY_ITERATIONS
                        THEN "done" ELSE "pop"]
           /\ scan_i' = [scan_i EXCEPT ![w] = 0]
    /\ UNCHANGED <<fuzz_state, persist, inputs, outcome, driver, shared, decisions, history,
                   item, href_i, links, new_urls, target_worker>>


FetchErrAborts(w) ==
    /\ pc[w] = "fetch"
    /\ pc' = [pc EXCEPT ![w] = "done"]
    /\ item' = [item EXCEPT ![w] = NoItem]
    /\ UNCHANGED <<fuzz_state, persist, inputs, outcome, driver, shared, decisions, history,
                   empty_iterations, scan_i, href_i, links, new_urls, target_worker>>

\* fetch_and_parse_static fails: client.get(url).send() or response.text()
\* returns an error; the worker logs it and loops.
FetchErr(w) ==
    /\ pc[w] = "fetch"
    /\ pc' = [pc EXCEPT ![w] = "pop"]
    /\ item' = [item EXCEPT ![w] = NoItem]
    /\ UNCHANGED <<fuzz_state, persist, inputs, outcome, driver, shared, decisions, history,
                   empty_iterations, scan_i, href_i, links, new_urls, target_worker>>

\* The cross-domain callback needs the domain_decisions mutex only in Prompt
\* mode; every other href is handled without touching shared state.
NeedsDecision(url, href) ==
    LET absolute_url == resolve_url_static(url, href) IN
    /\ absolute_url # NoUrl
    /\ ~is_same_domain_static(absolute_url, base_domain)
    /\ ~auto_follow
    /\ follow_mode = "Prompt"

AdmitLocalNoCallback(url, href, acc) ==
    LET absolute_url == resolve_url_static(url, href) IN
    IF absolute_url = NoUrl THEN acc
    ELSE IF is_same_domain_static(absolute_url, base_domain) THEN Append(acc, absolute_url)
    ELSE IF auto_follow THEN Append(acc, absolute_url)
    ELSE acc

\* extract_elements_static's branch for an href that needs no decision.
AdmitLocal(url, href, acc) ==
    LET absolute_url == resolve_url_static(url, href) IN
    IF absolute_url = NoUrl THEN acc
    ELSE IF is_same_domain_static(absolute_url, base_domain) THEN Append(acc, absolute_url)
    ELSE IF auto_follow THEN Append(acc, absolute_url)
    ELSE IF follow_mode = "Auto" THEN Append(acc, absolute_url)
    ELSE acc

\* extract_elements_static's loop from href i on, up to the first href that
\* needs a decision (or to the end): [i |-> where it stops, links |-> so far].
RECURSIVE ExtractRun(_, _, _, _)
ExtractRun(url, hrefs, i, acc) ==
    IF i > Len(hrefs) \/ NeedsDecision(url, hrefs[i]) THEN [i |-> i, links |-> acc]
    ELSE ExtractRun(url, hrefs, i + 1, AdmitLocal(url, hrefs[i], acc))

\* The worker's loop continues from href i with the links acc.
ContinueExtract(w, i, acc) ==
    LET hrefs == PageLinks(site, UrlParse(item[w].url))
        run == ExtractRun(item[w].url, hrefs, i, acc)
    IN
    /\ links' = [links EXCEPT ![w] = run.links]
    /\ IF run.i > Len(hrefs) THEN
           /\ href_i' = [href_i EXCEPT ![w] = 0]
           /\ pc' = [pc EXCEPT ![w] = "store"]
       ELSE
           /\ href_i' = [href_i EXCEPT ![w] = run.i]
           /\ pc' = [pc EXCEPT ![w] = "extract"]

\* fetch_and_parse_static receives the response; only a text/html body is
\* handed to extract_elements_static.
FetchOk(w) ==
    /\ pc[w] = "fetch"
    /\ \E is_html \in BOOLEAN :
          IF is_html THEN ContinueExtract(w, 1, <<>>)
          ELSE /\ links' = [links EXCEPT ![w] = <<>>]
               /\ pc' = [pc EXCEPT ![w] = "store"]
               /\ UNCHANGED href_i
    /\ UNCHANGED <<fuzz_state, persist, inputs, outcome, driver, shared, decisions, history,
                   item, empty_iterations, scan_i, new_urls, target_worker>>

result_without_prompt_yes(domain) == TRUE

\* The callback's result when there is no progress bar to suspend: the user
\* is not asked.
result_without_prompt(domain) == FALSE

\* The Prompt callback execute_crawl builds, called by extract_elements_static
\* for the cross-domain href at href_i: it takes the domain_decisions mutex,
\* answers from approved/denied when the domain is known, and otherwise asks
\* the user (keeping the mutex) or, without a progress bar, denies.
cross_domain_callback(w) ==
    /\ pc[w] = "extract"
    /\ lock_acquired(decisions_lock)
    /\ LET href == PageLinks(site, UrlParse(item[w].url))[href_i[w]]
           absolute_url == resolve_url_static(item[w].url, href)
           domain == absolute_url.host
       IN
       IF domain \in approved THEN
           /\ ContinueExtract(w, href_i[w] + 1, Append(links[w], absolute_url))
           /\ UNCHANGED decisions
       ELSE IF domain \in denied THEN
           /\ ContinueExtract(w, href_i[w] + 1, links[w])
           /\ UNCHANGED decisions
       ELSE IF show_progress_bars THEN
           /\ decisions_lock' = w
           /\ oracle_calls' = BagAdd(oracle_calls, domain)
           /\ pc' = [pc EXCEPT ![w] = "prompt"]
           /\ UNCHANGED <<approved, denied, links, href_i>>
       ELSE
           LET result == result_without_prompt(domain) IN
           /\ approved' = IF result THEN approved \cup {domain} ELSE approved
           /\ denied' = IF result THEN denied ELSE denied \cup {domain}
           /\ ContinueExtract(w, href_i[w] + 1,
                              IF result THEN Append(links[w], absolute_url) ELSE links[w])
           /\ UNCHANGED <<decisions_lock, oracle_calls>>
    /\ UNCHANGED <<fuzz_state, persist, inputs, outcome, driver, shared, history,
                   item, empty_iterations, scan_i, new_urls, target_worker>>

\* The user answers the prompt; the decision is stored and the mutex released.
PromptAnswer(w) ==
    /\ pc[w] = "prompt"
    /\ decisions_lock = w
    /\ LET href == PageLinks(site, UrlParse(item[w].url))[href_i[w]]
           absolute_url == resolve_url_static(item[w].url, href)
           domain == absolute_url.host
       IN
       \E result \in BOOLEAN :
          /\ approved' = IF result THEN approved \cup {domain} ELSE approved
          /\ denied' = IF result THEN denied ELSE denied \cup {domain}
          /\ ContinueExtract(w, href_i[w] + 1,
                             IF result THEN Append(links[w], absolute_url) ELSE links[w])
    /\ decisions_lock' = Free
    /\ UNCHANGED <<fuzz_state, persist, inputs, outcome, driver, shared, history, oracle_calls,
                   item, empty_iterations, scan_i, new_urls, target_worker>>

\* The CrawlResult the worker holds once fetch_and_parse_static has returned.
crawl_result(w) == [url |-> item[w].url, links_found |-> links[w]]

ResultCallbackSkipped(w) ==
    /\ pc[w] = "store"
    /\ pc' = [pc EXCEPT ![w] = "push"]
    /\ UNCHANGED <<fuzz_state, persist, inputs, driver, shared, decisions, history, outcome,
                   item, empty_iterations, scan_i, href_i, links, new_urls, target_worker>>

\* The per-result callback installed by with_result_callback is called with
\* the CrawlResult before the result is stored.
InvokeResultCallback(w) ==
    /\ pc[w] = "store"
    /\ result_cb_log' = BagAdd(result_cb_log, crawl_result(w))
    /\ pc' = [pc EXCEPT ![w] = "push"]
    /\ UNCHANGED <<fuzz_state, persist, inputs, driver, shared, decisions, history,
                   crawl_ret, exec_ret, ui_quit,
                   item, empty_iterations, scan_i, href_i, links, new_urls, target_worker>>

\* results_lock.push(crawl_result); then the distribution loop starts at
\* target_worker = 0.
StoreResult(w) ==
    /\ pc[w] = "push"
    /\ results' = Append(results, crawl_result(w))
    /\ new_urls' = [new_urls EXCEPT ![w] = links[w]]
    /\ links' = [links EXCEPT ![w] = <<>>]
    /\ target_worker' = [target_worker EXCEPT ![w] = 0]
    /\ IF links[w] = <<>> THEN
           /\ pc' = [pc EXCEPT ![w] = "pop"]
           /\ item' = [item EXCEPT ![w] = NoItem]
       ELSE
           /\ pc' = [pc EXCEPT ![w] = "visit"]
           /\ UNCHANGED item
    /\ UNCHANGED <<fuzz_state, persist, inputs, outcome, driver, visited, base_domain, worker_queues, decisions, history,
                   empty_iterations, scan_i, href_i>>

\* Where the distribution loop goes after the link at the head of new_urls.
AfterLink(w) ==
    /\ new_urls' = [new_urls EXCEPT ![w] = Tail(@)]
    /\ IF Len(new_urls[w]) > 1 THEN
           /\ pc' = [pc EXCEPT ![w] = "visit"]
           /\ UNCHANGED item
       ELSE
           /\ pc' = [pc EXCEPT ![w] = "pop"]
           /\ item' = [item EXCEPT ![w] = NoItem]

should_queue_unchecked(vis, new_url) == TRUE

\* The check-and-mark block under the visited lock.
should_queue(vis, new_url) == new_url \notin vis

CheckVisited(w) ==
    /\ pc[w] = "visit"
    /\ LET new_url == Head(new_urls[w]) IN
       IF should_queue(visited, new_url) THEN
           /\ visited' = mark_visited(visited, new_url)
           /\ pc' = [pc EXCEPT ![w] = "enqueue"]
           /\ UNCHANGED <<item, new_urls>>
       ELSE
           /\ AfterLink(w)
           /\ UNCHANGED visited
    /\ UNCHANGED <<fuzz_state, persist, inputs, outcome, driver, results, base_domain, worker_queues, decisions, history,
                   empty_iterations, scan_i, href_i, links, target_worker>>

next_target_stays(t) == t

\* queue.push_back((new_url, depth + 1)) on the target worker's queue, then
\* the round-robin step.
next_target(t) == (t + 1) % threads

Enqueue(w) ==
    /\ pc[w] = "enqueue"
    /\ LET new_url == Head(new_urls[w])
           entry == [url |-> new_url, depth |-> item[w].depth + 1]
       IN
       /\ worker_queues' = [worker_queues EXCEPT ![target_worker[w]] = Append(@, entry)]
       /\ enq_log' = BagAdd(enq_log, [url |-> new_url, depth |-> item[w].depth + 1,
                                      target |-> target_worker[w]])
    /\ target_worker' = [target_worker EXCEPT ![w] = next_target(@)]
    /\ AfterLink(w)
    /\ UNCHANGED <<fuzz_state, persist, inputs, outcome, driver, visited, results, base_domain, decisions, fetch_log,
                   empty_iterations, scan_i, href_i, links>>

Worker(w) ==
    \/ PopFront(w)
    \/ all_queues_empty(w)
    \/ FetchErr(w)
    \/ FetchOk(w)
    \/ cross_domain_callback(w)
    \/ PromptAnswer(w)
    \/ InvokeResultCallback(w)
    \/ StoreResult(w)
    \/ CheckVisited(w)
    \/ Enqueue(w)

Next ==
    \/ CrawlStart
    \/ CrawlReturn
    \/ ExecuteCrawlReturn
    \/ \E w \in Workers : Worker(w)

Spec == Init /\ [][Next]_vars

ScanSpec == ScanInit /\ [][Next]_vars

AutoSpec == AutoInit /\ [][Next]_vars

\* The runtime schedules every spawned task and the driver; every request
\* ends (reqwest's timeout), and the user answers a prompt.
Fairness ==
    /\ WF_vars(CrawlStart \/ CrawlReturn \/ ExecuteCrawlReturn)
    /\ \A w \in 0 .. (MaxWorkers - 1) : WF_vars(w \in Workers /\ Worker(w))

FairSpec == Spec /\ Fairness

\* run_monitor leaves its loop when the user presses q, Esc or Ctrl+C while
\* execute_crawl is running.  The should_exit flag is read by the monitor
\* only, and the sends on the closed channel are ignored (let _ = tx.send).
RunMonitorQuit ==
    /\ dpc \in {"call", "join"}
    /\ ~ui_quit
    /\ ui_quit' = TRUE
    /\ UNCHANGED <<fuzz_state, persist, inputs, driver, shared, locals, decisions, history,
                   crawl_ret, exec_ret, result_cb_log>>

MonitorNext == Next \/ RunMonitorQuit

\* A crawl watched by the TUI monitor.
MonitorSpec == Init /\ [][MonitorNext]_vars


(***************************************************************************)
(* The fuzzer (rinzler-core/src/fuzz.rs).  A fuzz URL is a record          *)
(* [host, path, query]; path and query are sequences of characters, and a  *)
(* word of the wordlist is a sequence of characters too.                   *)
(***************************************************************************)
MaxHitLen == 2
MaxPathLen == 6

FUrl(h, p, q) == [host |-> h, path |-> p, query |-> q]
BadBase == FUrl(<<>>, <<>>, <<>>)

RECURSIVE trim_start_slashes(_)
trim_start_slashes(word) ==
    IF word # <<>> /\ Head(word) = "/" THEN trim_start_slashes(Tail(word)) ELSE word

\* Url::path(): never empty for an http URL.
url_path(u) == IF u.path = <<>> THEN <<"/">> ELSE u.path

\* The segments of a path written without its leading slash: the pieces
\* between the slashes.
RECURSIVE path_segments(_)
path_segments(s) ==
    IF \A i \in 1 .. Len(s) : s[i] # "/" THEN <<s>>
    ELSE LET k == CHOOSE i \in 1 .. Len(s) : s[i] = "/" /\ \A j \in 1 .. (i - 1) : s[j] # "/"
         IN  <<SubSeq(s, 1, k - 1)>> \o path_segments(SubSeq(s, k + 1, Len(s)))

\* The URL parser's walk over the segments: "." is dropped, ".." removes the
\* segment before it, and either of them in last position leaves the path
\* ending with a slash.
RECURSIVE remove_dot_segments(_, _)
remove_dot_segments(segs, out) ==
    IF segs = <<>> THEN out
    ELSE LET seg == Head(segs)
             closing == IF Len(segs) = 1 THEN <<(<<>>)>> ELSE <<>>
         IN  IF seg = <<".", ".">>
             THEN remove_dot_segments(Tail(segs),
                      (IF out = <<>> THEN out ELSE SubSeq(out, 1, Len(out) - 1)) \o closing)
             ELSE IF seg = <<".">>
             THEN remove_dot_segments(Tail(segs), out \o closing)
             ELSE remove_dot_segments(Tail(segs), Append(out, seg))

\* The parser's percent-encoding of a path segment, for the characters of
\* the model that lie in the path percent-encode set.
RECURSIVE percent_encode(_)
percent_encode(seg) ==
    IF seg = <<>> THEN <<>>
    ELSE (IF Head(seg) = "?" THEN <<"%", "3", "F">>
          ELSE IF Head(seg) = "#" THEN <<"%", "2", "3">>
          ELSE IF Head(seg) = " " THEN <<"%", "2", "0">>
          ELSE <<Head(seg)>>) \o percent_encode(Tail(seg))

RECURSIVE join_segments(_)
join_segments(segs) ==
    IF segs = <<>> THEN <<>>
    ELSE <<"/">> \o percent_encode(Head(segs)) \o join_segments(Tail(segs))

\* Url::set_path: the new path goes through the URL parser, which removes
\* dot segments and percent-encodes.
set_path(new_path) ==
    LET rest == IF new_path # <<>> /\ Head(new_path) = "/" THEN Tail(new_path) ELSE new_path
    IN  join_segments(remove_dot_segments(path_segments(rest), <<>>))

\* build_test_url on a base that parses: scheme, host, port and query stay.
build_test_url(base_url, word) ==
    LET current_path == url_path(base_url)
        path_base == IF current_path[Len(current_path)] = "/" THEN current_path
                     ELSE current_path \o <<"/">>
    IN  [base_url EXCEPT !.path = set_path(path_base \o trim_start_slashes(word))]

\* build_test_url as its callers see it: Err for a base that does not parse.
build_test_url_result(base_url, word) ==
    IF ParseOk(base_url) THEN [ok |-> TRUE, url |-> build_test_url(base_url, word)]
    ELSE [ok |-> FALSE, url |-> base_url]

extract_base_url(u) == FUrl(u.host, url_path(u), <<>>)

\* query_database_endpoints: for each target domain in turn, the rows whose
\* domain column (the URL's host) is that domain and whose URL parses and lies
\* in the domain.
RECURSIVE RowsForDomain(_, _)
RowsForDomain(rows, domain) ==
    IF rows = <<>> THEN <<>>
    ELSE LET r == Head(rows)
             keep == /\ ParseOk(r)
                     /\ r.host = domain
                     /\ (r.host = domain \/ EndsWith(r.host, <<".">> \o domain))
         IN  (IF keep THEN <<r>> ELSE <<>>) \o RowsForDomain(Tail(rows), domain)

RECURSIVE query_database_endpoints(_, _)
query_database_endpoints(rows, target_urls) ==
    IF target_urls = <<>> THEN <<>>
    ELSE (IF ParseOk(Head(target_urls)) THEN RowsForDomain(rows, Head(target_urls).host)
          ELSE <<>>)
         \o query_database_endpoints(rows, Tail(target_urls))

\* urls_to_test: for every base in order, one URL per word in wordlist order.
RECURSIVE UrlsToTest(_, _)
UrlsToTest(bases, words) ==
    IF bases = <<>> THEN <<>>
    ELSE [i \in 1 .. Len(words) |->
             [url |-> build_test_url(Head(bases).url, words[i]),
              source |-> Head(bases).source]]
         \o UrlsToTest(Tail(bases), words)

\* The servers the fuzzer talks to: the status of a URL.  Server 1 has one
\* directory /a with a redirecting /a/a below it, server 2 answers 200 to
\* every short path, server 3 fails with 500 on /a; the catch-all server
\* answers 200 to every URL.
FuzzServers == {1, 2, 3}
CatchAllServer == 4
OneDirServer == 5
PathA == <<"/", "a">>
PathAA == <<"/", "a", "/", "a">>

ServerStatus(srv, u) ==
    IF srv = 1 THEN
        (IF u.path = PathA THEN 200 ELSE IF u.path = PathAA THEN 301 ELSE 404)
    ELSE IF srv = 2 THEN
        (IF Len(u.path) <= MaxHitLen THEN 200 ELSE 404)
    ELSE IF srv = CatchAllServer THEN 200
    ELSE IF srv = OneDirServer THEN
        (IF u.path = PathA THEN 200 ELSE 404)
    ELSE
        (IF u.path = PathA THEN 500 ELSE 404)

WordA == <<"a">>
WordSlashB == <<"/", "b">>
FuzzBaseLists ==
    {<<>>, <<FUrl(HostB, <<>>, <<>>)>>, <<FUrl(HostB, <<"/", "a">>, <<"q">>)>>, <<BadBase>>}
FuzzWordlists == {<<>>, <<WordA>>, <<WordA, WordSlashB>>}
FuzzStores == {<<>>, <<FUrl(HostB, <<"/", "a">>, <<>>), FUrl(HostX, <<"/">>, <<>>)>>}

FWorkers == 0 .. (f_threads - 1)
NoFItem == [url |-> BadBase, source |-> "Initial"]

DistributeAllToFirst(items, idx0, w) == IF w = 0 THEN items ELSE <<>>

\* The items of urls_to_test (from index idx0 on) whose index modulo the
\* worker count is w, in order.
RECURSIVE Distribute(_, _, _)
Distribute(items, idx0, w) ==
    IF items = <<>> THEN <<>>
    ELSE (IF idx0 % f_threads = w THEN <<Head(items)>> ELSE <<>>)
         \o Distribute(Tail(items), idx0 + 1, w)

\* handle_fuzz has loaded the wordlist and is about to call execute_fuzz.
\* execute_crawl is not running.
CrawlIdle ==
    /\ site = 1
    /\ urls = <<>>
    /\ threads = 0
    /\ max_depth = 0
    /\ follow_mode = "Disabled"
    /\ show_progress_bars = FALSE
    /\ auto_follow = FALSE
    /\ dpc = "idle"
    /\ idx = 1
    /\ all_results = <<>>
    /\ visited = {}
    /\ results = <<>>
    /\ base_domain = <<>>
    /\ worker_queues = <<>>
    /\ pc = <<>>
    /\ item = <<>>
    /\ empty_iterations = <<>>
    /\ scan_i = <<>>
    /\ href_i = <<>>
    /\ links = <<>>
    /\ new_urls = <<>>
    /\ target_worker = <<>>
    /\ approved = {}
    /\ denied = {}
    /\ decisions_lock = Free
    /\ oracle_calls = << >>
    /\ fetch_log = << >>
    /\ enq_log = << >>
    /\ crawl_ret = "none"
    /\ exec_ret = "none"
    /\ ui_quit = FALSE
    /\ result_cb_log = << >>

FuzzInitOf(baseLists, wordlists, servers, threadCounts, dbPaths) ==
    /\ base_urls \in baseLists
    /\ wordlist \in wordlists
    /\ f_threads \in threadCounts
    /\ db_path \in dbPaths
    /\ db_rows \in (IF db_path = "None" THEN {<<>>} ELSE FuzzStores)
    /\ server \in servers
    /\ fdpc = "start"
    /\ f_results = <<>>
    /\ hits_display = <<>>
    /\ f_queues = [w \in FWorkers |-> <<>>]
    /\ tested_urls = {}
    /\ fpc = [w \in FWorkers |-> "idle"]
    /\ f_item = [w \in FWorkers |-> NoFItem]
    /\ f_status = [w \in FWorkers |-> 0]
    /\ steal_i = [w \in FWorkers |-> 0]
    /\ fscan_i = [w \in FWorkers |-> 0]
    /\ req_log = << >>
    /\ f_err = "none"
    /\ db_opened = FALSE
    /\ urls_built = 0
    /\ producers = {}
    /\ CrawlIdle
    /\ PersistIdle

\* The bases up to the first one that Url::parse rejects.
RECURSIVE ParsedPrefix(_)
ParsedPrefix(bases) ==
    IF bases = <<>> \/ ~ParseOk(Head(bases).url) THEN <<>>
    ELSE <<Head(bases)>> \o ParsedPrefix(Tail(bases))

empty_input_error_bases_only(bases, words) ==
    IF bases = <<>> THEN "No base URLs provided" ELSE "none"

\* The two emptiness checks at the head of execute_fuzz.
empty_input_error(bases, words) ==
    IF bases = <<>> THEN "No base URLs provided"
    ELSE IF words = <<>> THEN "Wordlist is empty"
    ELSE "none"

FuzzInitWith(baseLists, wordlists, servers) ==
    FuzzInitOf(baseLists, wordlists, servers, 1 .. MaxWorkers, {"None", "Some"})

FuzzInit == FuzzInitWith(FuzzBaseLists, FuzzWordlists, FuzzServers)

\* A fuzz of the catch-all server.
CatchAllInit ==
    FuzzInitWith({<<FUrl(HostB, <<>>, <<>>)>>}, {<<WordA>>}, {CatchAllServer})

\* execute_fuzz up to the spawning of the workers: the two emptiness checks,
\* the store query, the URL list (store bases first, then the caller's) and
\* its distribution by index modulo the worker count.
FuzzStart ==
    /\ fdpc = "start"
    /\ IF empty_input_error(base_urls, wordlist) # "none" THEN
           /\ fdpc' = "err"
           /\ f_err' = empty_input_error(base_urls, wordlist)
           /\ UNCHANGED <<f_queues, fpc, db_opened, urls_built>>
       ELSE
           LET db_endpoints ==
                   IF db_path = "Some" THEN query_database_endpoints(db_rows, base_urls)
                   ELSE <<>>
               base_urls_with_source ==
                   [i \in 1 .. Len(db_endpoints) |->
                       [url |-> db_endpoints[i], source |-> "Database"]]
                   \o [i \in 1 .. Len(base_urls) |->
                          [url |-> base_urls[i], source |-> "Initial"]]
               parsed == ParsedPrefix(base_urls_with_source)
               urls_to_test == UrlsToTest(parsed, wordlist)
           IN
           /\ db_opened' = (db_path = "Some")
           /\ urls_built' = Len(urls_to_test)
           /\ IF wordlist # <<>> /\ Len(parsed) < Len(base_urls_with_source) THEN
                  /\ fdpc' = "err"
                  /\ f_err' = "Invalid base URL"
                  /\ UNCHANGED <<f_queues, fpc>>
              ELSE
                  /\ f_queues' = [w \in FWorkers |-> Distribute(urls_to_test, 0, w)]
                  /\ fpc' = [w \in FWorkers |-> "pop"]
                  /\ fdpc' = "join"
                  /\ UNCHANGED f_err
    /\ UNCHANGED <<crawl_state, base_urls, wordlist, f_threads, db_path, db_rows, server,
                   f_results, hits_display, tested_urls, f_item, f_status, steal_i,
                   fscan_i, req_log, producers>>


f_same == <<crawl_state, base_urls, wordlist, f_threads, db_path, db_rows, server,
            f_err, db_opened, urls_built>>

\* queue.pop_front() on the worker's own queue.
FuzzPop(w) ==
    /\ fpc[w] = "pop"
    /\ IF f_queues[w] # <<>> THEN
           /\ f_item' = [f_item EXCEPT ![w] = Head(f_queues[w])]
           /\ f_queues' = [f_queues EXCEPT ![w] = Tail(@)]
           /\ req_log' = BagAdd(req_log, [w |-> w, url |-> Head(f_queues[w]).url])
           /\ fpc' = [fpc EXCEPT ![w] = "request"]
           /\ UNCHANGED steal_i
       ELSE
           /\ fpc' = [fpc EXCEPT ![w] = "steal"]
           /\ steal_i' = [steal_i EXCEPT ![w] = IF w = 0 THEN 1 ELSE 0]
           /\ UNCHANGED <<f_queues, f_item, req_log>>
    /\ UNCHANGED <<f_same, producers, fdpc, f_results, hits_display, tested_urls, f_status, fscan_i>>

next_steal_target_with_self(w, t) == t + 1

\* The next target_id after t that is not the worker itself.
next_steal_target(w, t) == IF t + 1 = w THEN t + 2 ELSE t + 1

pop_back_peek(q) == q

\* What pop_back() leaves in the queue.
pop_back(q) == SubSeq(q, 1, Len(q) - 1)

\* One iteration of try_steal_fuzz_work's loop: lock the target's queue and
\* pop_back(); when the targets are exhausted the call returns None.
try_steal_fuzz_work(w) ==
    /\ fpc[w] = "steal"
    /\ IF steal_i[w] >= f_threads THEN
           /\ fpc' = [fpc EXCEPT ![w] = "scan"]
           /\ fscan_i' = [fscan_i EXCEPT ![w] = 0]
           /\ steal_i' = [steal_i EXCEPT ![w] = 0]
           /\ UNCHANGED <<f_queues, f_item, req_log>>
       ELSE IF f_queues[steal_i[w]] # <<>> THEN
           LET q == f_queues[steal_i[w]]
               stolen == q[Len(q)]
           IN
           /\ f_queues' = [f_queues EXCEPT ![steal_i[w]] = pop_back(q)]
           /\ f_item' = [f_item EXCEPT ![w] = stolen]
           /\ req_log' = BagAdd(req_log, [w |-> w, url |-> stolen.url])
           /\ fpc' = [fpc EXCEPT ![w] = "request"]
           /\ steal_i' = [steal_i EXCEPT ![w] = 0]
           /\ UNCHANGED fscan_i
       ELSE
           /\ steal_i' = [steal_i EXCEPT ![w] = next_steal_target(w, @)]
           /\ UNCHANGED <<f_queues, f_item, req_log, fpc, fscan_i>>
    /\ UNCHANGED <<f_same, producers, fdpc, f_results, hits_display, tested_urls, f_status>>

\* One iteration of all_fuzz_queues_empty's loop; true ends the worker,
\* false makes it sleep and retry.
all_fuzz_queues_empty(w) ==
    /\ fpc[w] = "scan"
    /\ IF f_queues[fscan_i[w]] # <<>> THEN
           /\ fpc' = [fpc EXCEPT ![w] = "pop"]
           /\ fscan_i' = [fscan_i EXCEPT ![w] = 0]
       ELSE IF fscan_i[w] + 1 < f_threads THEN
           /\ fscan_i' = [fscan_i EXCEPT ![w] = @ + 1]
           /\ UNCHANGED fpc
       ELSE
           /\ fpc' = [fpc EXCEPT ![w] = "done"]
           /\ fscan_i' = [fscan_i EXCEPT ![w] = 0]
    /\ UNCHANGED <<f_same, producers, fdpc, f_results, hits_display, f_queues, tested_urls,
                   f_item, f_status, steal_i, req_log>>

\* make_fuzz_request returns Err: the if-let body is skipped and the worker
\* loops.
FuzzRequestErr(w) ==
    /\ fpc[w] = "request"
    /\ fpc' = [fpc EXCEPT ![w] = "pop"]
    /\ f_item' = [f_item EXCEPT ![w] = NoFItem]
    /\ UNCHANGED <<f_same, producers, fdpc, f_results, hits_display, f_queues, tested_urls,
                   f_status, steal_i, fscan_i, req_log>>

is_saved_up_to_500(status_code) == status_code <= 500

\* Which responses are saved, and which count as a hit.
is_saved(status_code) == status_code < 500
is_hit(status_code) == status_code >= 200 /\ status_code < 400

\* make_fuzz_request returns Ok: the result takes the item's source and is
\* pushed on results when its status is below 500.
FuzzRequestOk(w) ==
    /\ fpc[w] = "request"
    /\ LET status_code == ServerStatus(server, f_item[w].url) IN
       /\ f_status' = [f_status EXCEPT ![w] = status_code]
       /\ f_results' =
             IF is_saved(status_code)
             THEN Append(f_results, [url |-> f_item[w].url, status_code |-> status_code,
                                     source |-> f_item[w].source])
             ELSE f_results
       /\ producers' = IF is_saved(status_code) THEN producers \cup {w} ELSE producers
       /\ IF is_hit(status_code) THEN
              /\ fpc' = [fpc EXCEPT ![w] = "hit"]
              /\ UNCHANGED f_item
          ELSE
              /\ fpc' = [fpc EXCEPT ![w] = "pop"]
              /\ f_item' = [f_item EXCEPT ![w] = NoFItem]
    /\ UNCHANGED <<f_same, fdpc, hits_display, f_queues, tested_urls,
                   steal_i, fscan_i, req_log>>

\* hits_display.push(format_hit(&result))
FuzzHit(w) ==
    /\ fpc[w] = "hit"
    /\ hits_display' = Append(hits_display, [path |-> url_path(f_item[w].url),
                                             status_code |-> f_status[w]])
    /\ fpc' = [fpc EXCEPT ![w] = "expand"]
    /\ UNCHANGED <<f_same, producers, fdpc, f_results, f_queues, tested_urls,
                   f_item, f_status, steal_i, fscan_i, req_log>>

base_is_new_unchecked(tested, base_url) == TRUE

\* !tested.contains(&base_url)
base_is_new(tested, base_url) == base_url \notin tested

\* Under the tested_urls lock: a base not tested before is recorded and one
\* URL per word is pushed on the worker's own queue.  The model follows a
\* run while the paths have fewer than MaxPathLen characters.
FuzzExpand(w) ==
    /\ fpc[w] = "expand"
    /\ Len(url_path(f_item[w].url)) < MaxPathLen
    /\ LET base_url == extract_base_url(f_item[w].url) IN
       IF base_is_new(tested_urls, base_url) THEN
           /\ tested_urls' = tested_urls \cup {base_url}
           /\ f_queues' = [f_queues EXCEPT ![w] =
                 @ \o [i \in 1 .. Len(wordlist) |->
                          [url |-> build_test_url(base_url, wordlist[i]),
                           source |-> "Discovered"]]]
       ELSE
           UNCHANGED <<tested_urls, f_queues>>
    /\ fpc' = [fpc EXCEPT ![w] = "pop"]
    /\ f_item' = [f_item EXCEPT ![w] = NoFItem]
    /\ UNCHANGED <<f_same, producers, fdpc, f_results, hits_display, f_status, steal_i, fscan_i, req_log>>

\* Every worker task is joined and results.clone() is returned.
FuzzReturn ==
    /\ fdpc = "join"
    /\ \A w \in FWorkers : fpc[w] = "done"
    /\ fdpc' = "ok"
    /\ UNCHANGED <<f_same, producers, f_results, hits_display, f_queues, tested_urls, fpc,
                   f_item, f_status, steal_i, fscan_i, req_log>>

FuzzWorker(w) ==
    \/ FuzzPop(w)
    \/ try_steal_fuzz_work(w)
    \/ all_fuzz_queues_empty(w)
    \/ FuzzRequestErr(w)
    \/ FuzzRequestOk(w)
    \/ FuzzHit(w)
    \/ FuzzExpand(w)

FuzzNext ==
    \/ FuzzStart
    \/ FuzzReturn
    \/ \E w \in FWorkers : FuzzWorker(w)

FuzzSpec == FuzzInit /\ [][FuzzNext]_vars

\* The runtime schedules every spawned task, and every request ends
\* (the client's timeout).
FuzzFairness ==
    /\ WF_vars(FuzzStart \/ FuzzReturn)
    /\ \A w \in 0 .. (MaxWorkers - 1) : WF_vars(w \in FWorkers /\ FuzzWorker(w))

CatchAllSpec == CatchAllInit /\ [][FuzzNext]_vars /\ FuzzFairness

\* A fuzz with one worker more, on one base with two words: a thief has two
\* peers to choose from.
StealWorkers == 3

StealInit ==
    FuzzInitOf({<<FUrl(HostB, <<>>, <<>>)>>}, {<<WordA, WordSlashB>>}, {OneDirServer},
               {StealWorkers}, {"None"})

StealSpec == StealInit /\ [][FuzzNext]_vars

\* Either command: a crawl or a fuzz.
WorkerSpec == (Init \/ FuzzInit) /\ [][Next \/ FuzzNext]_vars

(***************************************************************************)
(* Helpers for stating the properties.                                     *)
(***************************************************************************)
RECURSIVE SumOver(_, _)
SumOver(b, S) ==
    IF S = {} THEN 0
    ELSE LET e == CHOOSE x \in S : TRUE IN b[e] + SumOver(b, S \ {e})

\* How many times url was pushed on a queue / sent to the server.
EnqCount(url) == SumOver(enq_log, {e \in DOMAIN enq_log : e.url = url})
FetchCount(url) == SumOver(fetch_log, {e \in DOMAIN fetch_log : e.url = url})

LoggedUrls == {e.url : e \in DOMAIN enq_log} \cup {e.url : e \in DOMAIN fetch_log}
Range(q) == {q[i] : i \in DOMAIN q}
InFlight == {"fetch", "extract", "prompt", "store", "push", "visit", "enqueue"}

(***************************************************************************)
(* C1. Within one crawl on a fresh crawler, under every interleaving, no   *)
(* URL is pushed on the worker queues more than once and no URL is sent to *)
(* the server more than once; whatever is pushed has been put in visited.  *)
(***************************************************************************)
C1_AtMostOnce ==
    \A u \in LoggedUrls :
        /\ EnqCount(u) <= 1
        /\ FetchCount(u) <= 1
        /\ u \in visited

\* Two workers hold the same new link: one has just marked it and is about to
\* push it, the other is about to find it already visited.
C1_Witness ==
    \E a, b \in Workers :
        /\ a # b
        /\ pc[a] = "enqueue"
        /\ pc[b] = "visit"
        /\ Head(new_urls[a]) = Head(new_urls[b])
        /\ EnqCount(Head(new_urls[a])) = 0


(***************************************************************************)
(* C2. Crawl terminates: whatever the link graph, the number of workers    *)
(* and the time each fetch takes, every worker eventually leaves its loop  *)
(* and execute_crawl returns.                                              *)
(***************************************************************************)
C2_Terminates == <>(dpc = "finished")

(***************************************************************************)
(* C3. A worker leaves its loop only when no other worker is in the middle *)
(* of a fetch or of distributing links, an exited worker leaves nothing in *)
(* its queue, and every queue is empty when crawl returns.                 *)
(***************************************************************************)
C3_NoPrematureExit ==
    /\ \A w \in Workers :
          pc[w] = "done" =>
              /\ worker_queues[w] = <<>>
              /\ \A v \in Workers : pc[v] \notin InFlight
    /\ dpc = "join" /\ (\A w \in Workers : pc[w] = "done") =>
          \A w \in Workers : worker_queues[w] = <<>>


(***************************************************************************)
(* C5. Depth bound: the seed is queued at depth 0 and a link at the depth  *)
(* of the page it was found on plus 1; nothing at depth >= max_depth is    *)
(* reported to the progress callback or fetched, so every fetched URL and  *)
(* every result has depth <= max_depth.                                    *)
(***************************************************************************)
C5_DepthBound ==
    /\ \A f \in DOMAIN fetch_log : f.depth < max_depth
    /\ \A r \in Range(results) : \E f \in DOMAIN fetch_log : f.url = r.url
    /\ \A e \in DOMAIN enq_log :
          \/ e.depth = 0 /\ e.url \in Range(urls)
          \/ \E f \in DOMAIN fetch_log :
                /\ e.depth = f.depth + 1
                /\ \E i \in DOMAIN PageLinks(site, UrlParse(f.url)) :
                      resolve_url_static(f.url, PageLinks(site, UrlParse(f.url))[i]) = e.url

\* The crawl is over and a link that was queued at depth max_depth has been
\* taken from its queue without being fetched.
C5_Witness ==
    /\ dpc = "finished"
    /\ \E e \in DOMAIN enq_log :
          /\ e.depth = max_depth
          /\ e.depth > 0
          /\ FetchCount(e.url) = 0

(***************************************************************************)
(* C6. With follow mode Disabled, the host of every URL that is marked     *)
(* visited, queued, fetched or reported as a result is base_domain or ends *)
(* with "." + base_domain.                                                 *)
(***************************************************************************)
HostInBase(h) ==
    \/ h = base_domain
    \/ /\ Len(h) > Len(base_domain)
       /\ h[Len(h) - Len(base_domain)] = "."
       /\ \A i \in 1 .. Len(base_domain) : h[Len(h) - Len(base_domain) + i] = base_domain[i]

C6_DisabledStaysInDomain ==
    follow_mode = "Disabled" =>
        /\ \A r \in Range(results) : HostInBase(r.url.host)
        /\ \A u \in visited \cup LoggedUrls : HostInBase(u.host)
        /\ \A w \in Workers : \A u \in Range(links[w]) \cup Range(new_urls[w]) : HostInBase(u.host)

\* A Disabled crawl has fetched and parsed the root of site 2, which links to
\* a subdomain, a look-alike host and a foreign host, and the page that links
\* to the foreign host twice.
C6_Witness ==
    /\ follow_mode = "Disabled"
    /\ site = 2
    /\ \E r \in Range(results) :
          r.url = Url(HostB, "/") /\ r.links_found = <<Url(HostSub, "/"), Url(HostB, "/1")>>
    /\ \E r \in Range(results) : r.url = Url(HostSub, "/")
    /\ \E r \in Range(results) : r.url = Url(HostB, "/1")


(***************************************************************************)
(* C7. In follow mode Prompt the user is asked at most once per domain     *)
(* under every interleaving: the mutex is held while the prompt is open,   *)
(* the answer is stored as approved or denied (never both, never           *)
(* forgotten), and a later call for a decided domain returns the stored    *)
(* answer without asking.                                                  *)
(***************************************************************************)
CurAbs(w) ==
    resolve_url_static(item[w].url, PageLinks(site, UrlParse(item[w].url))[href_i[w]])

C7_PromptOnce ==
    /\ [](/\ \A d \in DOMAIN oracle_calls : oracle_calls[d] <= 1
          /\ \A w \in Workers : pc[w] = "prompt" => decisions_lock = w
          /\ approved \cap denied = {}
          /\ \A d \in DOMAIN oracle_calls :
                \/ d \in approved \cup denied
                \/ \E w \in Workers : pc[w] = "prompt" /\ CurAbs(w).host = d)
    /\ [][/\ approved \subseteq approved'
          /\ denied \subseteq denied'
          /\ \A w \in Workers :
                (pc[w] = "extract" /\ (pc'[w] # "extract" \/ href_i'[w] # href_i[w])) =>
                    LET n == Len(links[w]) IN
                    /\ CurAbs(w).host \in approved =>
                          /\ oracle_calls' = oracle_calls
                          /\ Len(links'[w]) > n
                          /\ links'[w][n + 1] = CurAbs(w)
                    /\ CurAbs(w).host \in denied =>
                          /\ oracle_calls' = oracle_calls
                          /\ Len(links'[w]) > n => links'[w][n + 1] # CurAbs(w)]_vars

\* Two workers have parsed the two pages that link to the foreign host (three
\* links in all); the user was asked once and said yes, and all three links
\* were admitted.
C7_Witness ==
    /\ follow_mode = "Prompt"
    /\ threads = 2
    /\ {HostLook, HostX} \subseteq DOMAIN oracle_calls
    /\ oracle_calls[HostLook] = 1
    /\ oracle_calls[HostX] = 1
    /\ \E r \in Range(results) :
          r.url = Url(HostSub, "/") /\ r.links_found = <<Url(HostX, "/")>>
    /\ \E r \in Range(results) :
          r.url = Url(HostB, "/1") /\ r.links_found = <<Url(HostX, "/1"), Url(HostX, "/")>>
    /\ \E f, g \in DOMAIN fetch_log :
          f.url = Url(HostSub, "/") /\ g.url = Url(HostB, "/1") /\ f.w # g.w

(***************************************************************************)
(* C8. Every URL in the results list is in visited, and visited never      *)
(* loses an element.                                                       *)
(***************************************************************************)
C8_ResultsVisited ==
    /\ [](\A r \in Range(results) : r.url \in visited)
    /\ [][visited \subseteq visited']_vars

\* Two workers have stored results and links were marked after the seed.
C8_Witness ==
    /\ Len(results) >= 3
    /\ Cardinality(visited) >= 4
    /\ \E f, g \in DOMAIN fetch_log : f.w # g.w

(***************************************************************************)
(* C9. With N workers, max_depth >= 2 and a seed page that yields at least *)
(* N distinct new links, every worker processes at least one URL: no       *)
(* worker leaves its loop without the progress callback having fired for   *)
(* its id.                                                                 *)
(***************************************************************************)
SeedYields(n) ==
    \E r \in Range(results) :
        /\ r.url = urls[1]
        /\ Cardinality(Range(r.links_found) \ {urls[1]}) >= n

C9_EveryWorkerProcesses ==
    (max_depth >= 2 /\ SeedYields(threads)) =>
        \A w \in Workers : pc[w] = "done" => \E f \in DOMAIN fetch_log : f.w = w


(***************************************************************************)
(* C4. For any list of seeds, the list execute_crawl returns contains no   *)
(* URL twice.                                                              *)
(***************************************************************************)
C4_NoDuplicateResults ==
    dpc = "finished" =>
        \A i, j \in DOMAIN all_results :
            i # j => all_results[i].url # all_results[j].url


(***************************************************************************)
(* C10. A transport error on one URL is absorbed by the crawler or fuzzer  *)
(* worker that met it: no result is recorded, nothing is marked or queued, *)
(* the worker goes back to take its next item, and the scan does not fail  *)
(* (the fuzzer reports an error only before its first request).            *)
(***************************************************************************)
C10_ErrorAbsorbed ==
    /\ [](fdpc = "err" => req_log = << >>)
    /\ [][/\ \A w \in Workers :
                FetchErr(w) =>
                    /\ results' = results
                    /\ worker_queues' = worker_queues
                    /\ visited' = visited
                    /\ pc'[w] = "pop"
                    /\ dpc' = dpc
          /\ \A w \in FWorkers :
                FuzzRequestErr(w) =>
                    /\ f_results' = f_results
                    /\ hits_display' = hits_display
                    /\ f_queues' = f_queues
                    /\ tested_urls' = tested_urls
                    /\ fpc'[w] = "pop"
                    /\ fdpc' = fdpc]_vars

\* A single-worker crawl is over in which /1 was fetched without leaving a
\* result and /2, queued behind it, was fetched and left one.
C10_Witness ==
    /\ dpc = "finished"
    /\ threads = 1
    /\ FetchCount(Url(HostB, "/1")) = 1
    /\ \A r \in Range(results) : r.url # Url(HostB, "/1")
    /\ \E r \in Range(results) : r.url = Url(HostB, "/2")

\* The same for a fuzz: a URL the server would have answered below 500 was
\* requested and left no result, and the fuzz returned other results.
C10_FuzzWitness ==
    /\ fdpc = "ok"
    /\ f_results # <<>>
    /\ \E q \in DOMAIN req_log :
          /\ ServerStatus(server, q.url) < 500
          /\ \A r \in Range(f_results) : r.url # q.url

(***************************************************************************)
(* C11. Crawler::crawl called with a seed that cannot be parsed returns    *)
(* InvalidUrl before any worker is spawned: visited, results and the       *)
(* queues are as they were, no worker runs and nothing is fetched.         *)
(***************************************************************************)
C11_InvalidSeedRejected ==
    /\ [](crawl_ret = "InvalidUrl" => \E i \in DOMAIN urls : urls[i] = BadUrl)
    /\ [][(dpc = "call" /\ idx <= Len(urls) /\ urls[idx] = BadUrl /\ vars' # vars) =>
             /\ crawl_ret' = "InvalidUrl"
             /\ dpc' = "call"
             /\ idx' = idx + 1
             /\ visited' = visited
             /\ results' = results
             /\ worker_queues' = worker_queues
             /\ pc' = pc
             /\ \A w \in Workers : pc[w] = "idle"
             /\ fetch_log' = fetch_log
             /\ enq_log' = enq_log]_vars

\* An unparseable second seed was rejected after the first seed's crawl had
\* filled visited and results.
C11_Witness ==
    /\ crawl_ret = "InvalidUrl"
    /\ idx = 3
    /\ urls[2] = BadUrl
    /\ visited # {}
    /\ results # <<>>

(***************************************************************************)
(* C12. execute_crawl called with a single seed that cannot be parsed      *)
(* returns an error to its caller.                                         *)
(***************************************************************************)
C12_InvalidSeedIsError ==
    (dpc = "finished" /\ urls = <<BadUrl>>) => exec_ret = "Err"

(***************************************************************************)
(* C13. Every CrawlResult of a successful fetch is handed to the           *)
(* per-result callback exactly once, after the fetch and before it is      *)
(* appended to results: whatever is in results was handed over once, and   *)
(* whatever was handed over is in results or held by a worker about to     *)
(* append it.                                                              *)
(***************************************************************************)
C13_ResultCallbackOnce ==
    /\ [](/\ \A r \in Range(results) :
                r \in DOMAIN result_cb_log /\ result_cb_log[r] = 1
          /\ \A r \in DOMAIN result_cb_log :
                /\ result_cb_log[r] = 1
                /\ FetchCount(r.url) = 1
                /\ \/ r \in Range(results)
                   \/ \E w \in Workers : pc[w] = "push" /\ crawl_result(w) = r
          /\ \A w \in Workers :
                pc[w] = "store" => crawl_result(w) \notin DOMAIN result_cb_log)
    /\ [][\A w \in Workers :
             (pc[w] \in {"fetch", "extract", "prompt"} /\ pc'[w] \notin {"fetch", "extract", "prompt"}) =>
                 \/ pc'[w] = "store" /\ results' = results /\ result_cb_log' = result_cb_log
                 \/ pc'[w] = "pop" /\ pc[w] = "fetch"]_vars

\* Two workers have each had a result handed to the callback; one of the two
\* results is stored and the other is not yet.
C13_Witness ==
    \E w \in Workers :
        /\ pc[w] = "push"
        /\ crawl_result(w) \in DOMAIN result_cb_log
        /\ crawl_result(w) \notin Range(results)
        /\ Len(results) >= 2
        /\ \E r \in Range(results) : \E f \in DOMAIN fetch_log : f.url = r.url /\ f.w # w

(***************************************************************************)
(* C14. Once the UI has quit, no worker takes new work: no queue loses an  *)
(* item and no further URL is sent to the server by a worker that was      *)
(* between iterations.                                                     *)
(***************************************************************************)
C14_CancelStopsWorkers ==
    [][ui_quit =>
          /\ \A w \in Workers : Len(worker_queues'[w]) >= Len(worker_queues[w])
          /\ fetch_log' = fetch_log]_vars

(***************************************************************************)
(* C15. execute_fuzz called with no base URL or with an empty wordlist     *)
(* returns an error, and at that point the store has not been opened, no   *)
(* candidate URL has been built, no worker exists and no request was sent. *)
(***************************************************************************)
C15_EmptyInputRejected ==
    (fdpc \notin {"idle", "start"} /\ (base_urls = <<>> \/ wordlist = <<>>)) =>
        /\ fdpc = "err"
        /\ f_err = (IF base_urls = <<>> THEN "No base URLs provided" ELSE "Wordlist is empty")
        /\ ~db_opened
        /\ urls_built = 0
    /\ producers = {}
        /\ \A w \in FWorkers : fpc[w] = "idle" /\ f_queues[w] = <<>>
        /\ req_log = << >>
        /\ f_results = <<>>

\* A fuzz with a base, a store holding rows and an empty wordlist was refused.
C15_Witness ==
    /\ fdpc = "err"
    /\ base_urls # <<>>
    /\ wordlist = <<>>
    /\ db_path = "Some"
    /\ db_rows # <<>>
    /\ f_err = "Wordlist is empty"

(***************************************************************************)
(* C16. A completed fuzz request's result is appended to results if and    *)
(* only if its status is below 500, so every result execute_fuzz returns   *)
(* has a status below 500.                                                 *)
(***************************************************************************)
C16_SavedIffBelow500 ==
    /\ [](\A r \in Range(f_results) : r.status_code < 500)
    /\ [][\A w \in FWorkers :
             FuzzRequestOk(w) =>
                 LET status_code == ServerStatus(server, f_item[w].url) IN
                 IF status_code < 500
                 THEN f_results' = Append(f_results,
                                          [url |-> f_item[w].url, status_code |-> status_code,
                                           source |-> f_item[w].source])
                 ELSE f_results' = f_results]_vars

\* A fuzz returned after one request was answered 500 and left no result and
\* another was answered 404 and left one.
C16_Witness ==
    /\ fdpc = "ok"
    /\ \E q \in DOMAIN req_log :
          /\ ServerStatus(server, q.url) = 500
          /\ \A r \in Range(f_results) : r.url # q.url
    /\ \E r \in Range(f_results) : r.status_code = 404

C18_ExpandOnce ==
    /\ [](\A b \in tested_urls : b.query = <<>>)
    /\ [][/\ tested_urls \subseteq tested_urls'
          /\ \A w \in FWorkers :
                FuzzExpand(w) =>
                    LET base == [host |-> f_item[w].url.host,
                                 path |-> url_path(f_item[w].url),
                                 query |-> <<>>]
                    IN
                    IF base \in tested_urls THEN
                        f_queues' = f_queues /\ tested_urls' = tested_urls
                    ELSE
                        /\ tested_urls' = tested_urls \cup {base}
                        /\ Len(f_queues'[w]) = Len(f_queues[w]) + Len(wordlist)
                        /\ SubSeq(f_queues'[w], 1, Len(f_queues[w])) = f_queues[w]
                        /\ \A i \in 1 .. Len(wordlist) :
                              f_queues'[w][Len(f_queues[w]) + i] =
                                  [url |-> build_test_url(base, wordlist[i]),
                                   source |-> "Discovered"]
                        /\ \A v \in FWorkers \ {w} : f_queues'[v] = f_queues[v]]_vars

\* Two workers hit two URLs that differ only in the query: the base was
\* expanded by one of them, whose queue holds the Discovered URLs, and the
\* other is about to find it tested.
C18_Witness ==
    \E w, v \in FWorkers :
        /\ w # v
        /\ fpc[w] = "expand"
        /\ extract_base_url(f_item[w].url) \in tested_urls
        /\ f_item[w].url.query # <<>>
        /\ \E i \in DOMAIN f_queues[v] :
              /\ f_queues[v][i].source = "Discovered"
              /\ f_queues[v][i].url =
                    build_test_url(extract_base_url(f_item[w].url), wordlist[1])
        /\ \A i \in DOMAIN f_queues[w] : f_queues[w][i].source # "Discovered"

AllAnswered ==
    /\ Len(f_results) = SumOver(req_log, DOMAIN req_log)
    /\ \A q \in DOMAIN req_log : ServerStatus(server, q.url) < 500

EnoughWork == f_threads >= 2 /\ urls_built >= 2 * f_threads

C21_NoDuplicateFuzzResults ==
    \A i, j \in 1 .. Len(f_results) :
        f_results[i].url = f_results[j].url => i = j

(***************************************************************************)
(* The store (rinzler-core/src/data.rs): one SQLite file with foreign keys *)
(* switched on.  A table is the set of its rows; a row keeps the columns   *)
(* that a constraint, a query or a caller reads.  Session and map ids are  *)
(* fresh UUIDs, the other ids come from the table's AUTOINCREMENT          *)
(* sequence, which never hands out an id twice.                            *)
(***************************************************************************)
MaxUuid == 3
MaxRowId == 2
MaxTime == 2
MaxAuxId == 1

Severities == {"critical", "high", "medium", "low", "info"}
ScanTypes == {"crawl", "fuzz", "manual"}
EdgeTypes == {"navigation", "reference", "redirect", "form_action", "api_call", "resource"}

tables == <<crawl_sessions, maps, nodes, edges, findings, technologies, http_transactions>>

Ok(call, id) == [call |-> call, ok |-> TRUE, id |-> id, err |-> "none"]
Err(call, why) == [call |-> call, ok |-> FALSE, id |-> NULL, err |-> why]

\* rusqlite reports a failure of the storage itself (disk full, file locked):
\* the statement changes nothing.
StorageFails(call) ==
    /\ io_faults > 0
    /\ io_faults' = io_faults - 1
    /\ db_ret' = Err(call, "storage")
    /\ UNCHANGED <<tables, db_seq>>

\* A constraint of the schema turns the statement down: nothing changes, and
\* a failed INSERT takes no id from the table's sequence.
Rejected(call, why) ==
    /\ db_ret' = Err(call, why)
    /\ UNCHANGED <<tables, db_seq>>

\* INSERT INTO crawl_sessions (id, start_time, status, scan_type, seed_urls)
create_session(scan_type) ==
    \/ StorageFails("create_session")
    \/ /\ UNCHANGED io_faults
       /\ IF scan_type \in ScanTypes THEN
              /\ crawl_sessions' = crawl_sessions \cup
                    {[id |-> db_seq.uuid, status |-> "running", end_time |-> NULL]}
              /\ db_seq' = [db_seq EXCEPT !.uuid = @ + 1]
              /\ db_ret' = Ok("create_session", db_seq.uuid)
              /\ UNCHANGED <<maps, nodes, edges, findings, technologies, http_transactions>>
          ELSE Rejected("create_session", "CHECK")

\* UPDATE crawl_sessions SET status = ?1, end_time = ?2 WHERE id = ?3
update_session(call, id, status) ==
    \/ StorageFails(call)
    \/ /\ UNCHANGED io_faults
       /\ crawl_sessions' =
             {IF s.id = id THEN [s EXCEPT !.status = status, !.end_time = db_now] ELSE s :
                 s \in crawl_sessions}
       /\ db_ret' = Ok(call, NULL)
       /\ UNCHANGED <<maps, nodes, edges, findings, technologies, http_transactions, db_seq>>

complete_session(id) == update_session("complete_session", id, "completed")
fail_session(id) == update_session("fail_session", id, "failed")

\* INSERT INTO maps (id, session_id, created_at): session_id is UNIQUE and
\* references crawl_sessions.
create_map(sid) ==
    \/ StorageFails("create_map")
    \/ /\ UNCHANGED io_faults
       /\ IF \E m \in maps : m.session_id = sid THEN Rejected("create_map", "UNIQUE")
          ELSE IF \A s \in crawl_sessions : s.id # sid
          THEN Rejected("create_map", "FOREIGN KEY")
          ELSE
              /\ maps' = maps \cup {[id |-> db_seq.uuid, session_id |-> sid]}
              /\ db_seq' = [db_seq EXCEPT !.uuid = @ + 1]
              /\ db_ret' = Ok("create_map", db_seq.uuid)
              /\ UNCHANGED <<crawl_sessions, nodes, edges, findings, technologies,
                             http_transactions>>

node_unique_unchecked(rows, mid, url) == TRUE

\* UNIQUE(map_id, url) on nodes
node_unique(rows, mid, url) == \A n \in rows : ~(n.map_id = mid /\ n.url = url)

\* INSERT INTO nodes (map_id, url, domain, ...): map_id references maps.
insert_node(mid, node) ==
    \/ StorageFails("insert_node")
    \/ /\ UNCHANGED io_faults
       /\ IF ~node_unique(nodes, mid, node.url) THEN Rejected("insert_node", "UNIQUE")
          ELSE IF \A m \in maps : m.id # mid THEN Rejected("insert_node", "FOREIGN KEY")
          ELSE
              /\ nodes' = nodes \cup {[id |-> db_seq.nodes, map_id |-> mid,
                                       url |-> node.url, domain |-> node.domain]}
              /\ db_seq' = [db_seq EXCEPT !.nodes = @ + 1]
              /\ db_ret' = Ok("insert_node", db_seq.nodes)
              /\ UNCHANGED <<crawl_sessions, maps, edges, findings, technologies,
                             http_transactions>>

\* INSERT INTO findings (...): session_id references crawl_sessions, node_id
\* references nodes, false_positive defaults to 0.
insert_finding(sid, finding) ==
    \/ StorageFails("insert_finding")
    \/ /\ UNCHANGED io_faults
       /\ IF finding.severity \notin Severities THEN Rejected("insert_finding", "CHECK")
          ELSE IF \/ \A s \in crawl_sessions : s.id # sid
                  \/ \A n \in nodes : n.id # finding.node_id
          THEN Rejected("insert_finding", "FOREIGN KEY")
          ELSE
              /\ findings' = findings \cup
                    {[id |-> db_seq.findings, session_id |-> sid,
                      node_id |-> finding.node_id, severity |-> finding.severity,
                      title |-> finding.title, false_positive |-> FALSE]}
              /\ db_seq' = [db_seq EXCEPT !.findings = @ + 1]
              /\ db_ret' = Ok("insert_finding", db_seq.findings)
              /\ UNCHANGED <<crawl_sessions, maps, nodes, edges, technologies,
                             http_transactions>>

\* INSERT INTO technologies (node_id, ...): node_id references nodes.
insert_technology(nid) ==
    \/ StorageFails("insert_technology")
    \/ /\ UNCHANGED io_faults
       /\ IF \A n \in nodes : n.id # nid THEN Rejected("insert_technology", "FOREIGN KEY")
          ELSE
              /\ technologies' = technologies \cup
                    {[id |-> db_seq.technologies, node_id |-> nid]}
              /\ db_seq' = [db_seq EXCEPT !.technologies = @ + 1]
              /\ db_ret' = Ok("insert_technology", db_seq.technologies)
              /\ UNCHANGED <<crawl_sessions, maps, nodes, edges, findings,
                             http_transactions>>

\* INSERT INTO http_transactions (session_id, node_id, ...): session_id
\* references crawl_sessions, node_id is NULL or references nodes.
log_http_transaction(sid, nid) ==
    \/ StorageFails("log_http_transaction")
    \/ /\ UNCHANGED io_faults
       /\ IF \/ \A s \in crawl_sessions : s.id # sid
             \/ nid # NULL /\ \A n \in nodes : n.id # nid
          THEN Rejected("log_http_transaction", "FOREIGN KEY")
          ELSE
              /\ http_transactions' = http_transactions \cup
                    {[id |-> db_seq.http_transactions, session_id |-> sid, node_id |-> nid]}
              /\ db_seq' = [db_seq EXCEPT !.http_transactions = @ + 1]
              /\ db_ret' = Ok("log_http_transaction", db_seq.http_transactions)
              /\ UNCHANGED <<crawl_sessions, maps, nodes, edges, findings, technologies>>

(***************************************************************************)
(* Statements a client of the store file runs on the connection            *)
(* (Database::get_connection): the schema decides what they do.            *)
(***************************************************************************)

\* INSERT INTO edges: map_id references maps, both ends reference nodes,
\* UNIQUE(source_node_id, target_node_id, edge_type).
sql_insert_edge(mid, src, tgt, kind) ==
    \/ StorageFails("sql_insert_edge")
    \/ /\ UNCHANGED io_faults
       /\ IF kind \notin EdgeTypes THEN Rejected("sql_insert_edge", "CHECK")
          ELSE IF \E e \in edges : /\ e.source_node_id = src
                                   /\ e.target_node_id = tgt
                                   /\ e.edge_type = kind
          THEN Rejected("sql_insert_edge", "UNIQUE")
          ELSE IF \/ \A m \in maps : m.id # mid
                  \/ \A n \in nodes : n.id # src
                  \/ \A n \in nodes : n.id # tgt
          THEN Rejected("sql_insert_edge", "FOREIGN KEY")
          ELSE
              /\ edges' = edges \cup {[id |-> db_seq.edges, map_id |-> mid,
                                       source_node_id |-> src, target_node_id |-> tgt,
                                       edge_type |-> kind]}
              /\ db_seq' = [db_seq EXCEPT !.edges = @ + 1]
              /\ db_ret' = Ok("sql_insert_edge", db_seq.edges)
              /\ UNCHANGED <<crawl_sessions, maps, nodes, findings, technologies,
                             http_transactions>>

\* UPDATE findings SET false_positive = 1 WHERE id = ?
sql_mark_false_positive(fid) ==
    /\ findings' = {IF f.id = fid THEN [f EXCEPT !.false_positive = TRUE] ELSE f : f \in findings}
    /\ db_ret' = Ok("sql_mark_false_positive", NULL)
    /\ UNCHANGED <<crawl_sessions, maps, nodes, edges, technologies, http_transactions,
                   db_seq, io_faults>>

findings_kept_on_node_delete(rows, gone) == rows

\* findings.node_id REFERENCES nodes(id) ON DELETE CASCADE
findings_on_node_delete(rows, gone) == {f \in rows : f.node_id \notin gone}

\* edges.source_node_id and edges.target_node_id REFERENCES nodes(id) ON DELETE CASCADE
edges_on_node_delete(rows, gone) ==
    {e \in rows : e.source_node_id \notin gone /\ e.target_node_id \notin gone}

\* technologies.node_id REFERENCES nodes(id) ON DELETE CASCADE
technologies_on_node_delete(rows, gone) == {t \in rows : t.node_id \notin gone}

\* http_transactions.node_id REFERENCES nodes(id) ON DELETE SET NULL
transactions_on_node_delete(rows, gone) ==
    {IF t.node_id \in gone THEN [t EXCEPT !.node_id = NULL] ELSE t : t \in rows}

\* DELETE FROM nodes WHERE id = ?
sql_delete_node(nid) ==
    /\ nodes' = {n \in nodes : n.id # nid}
    /\ edges' = edges_on_node_delete(edges, {nid})
    /\ findings' = findings_on_node_delete(findings, {nid})
    /\ technologies' = technologies_on_node_delete(technologies, {nid})
    /\ http_transactions' = transactions_on_node_delete(http_transactions, {nid})
    /\ db_ret' = Ok("sql_delete_node", NULL)
    /\ UNCHANGED <<crawl_sessions, maps, db_seq, io_faults>>

\* DELETE FROM crawl_sessions WHERE id = ?: maps, findings and
\* http_transactions reference the session ON DELETE CASCADE, nodes and edges
\* reference the map ON DELETE CASCADE, and the rows that reference a deleted
\* node follow as in sql_delete_node.
sql_delete_session(sid) ==
    LET maps_gone == {m.id : m \in {x \in maps : x.session_id = sid}}
        nodes_gone == {n.id : n \in {x \in nodes : x.map_id \in maps_gone}}
    IN  /\ crawl_sessions' = {s \in crawl_sessions : s.id # sid}
        /\ maps' = {m \in maps : m.session_id # sid}
        /\ nodes' = {n \in nodes : n.map_id \notin maps_gone}
        /\ edges' = edges_on_node_delete({e \in edges : e.map_id \notin maps_gone}, nodes_gone)
        /\ findings' = findings_on_node_delete({f \in findings : f.session_id # sid}, nodes_gone)
        /\ technologies' = technologies_on_node_delete(technologies, nodes_gone)
        /\ http_transactions' =
              transactions_on_node_delete({t \in http_transactions : t.session_id # sid},
                                          nodes_gone)
        /\ db_ret' = Ok("sql_delete_session", NULL)
        /\ UNCHANGED <<db_seq, io_faults>>

(***************************************************************************)
(* Queries.                                                                *)
(***************************************************************************)
count_all_sessions(rows, sid, sev) ==
    Cardinality({f \in rows : ~f.false_positive /\ f.severity = sev})

\* COUNT(*) ... WHERE session_id = ?1 AND false_positive = 0, for one severity
count_rows(rows, sid, sev) ==
    Cardinality({f \in rows : f.session_id = sid /\ ~f.false_positive /\ f.severity = sev})

\* get_findings_count_by_severity: one (severity, count) pair per severity
\* that has a row; SQL leaves the order of the groups open.
get_findings_count_by_severity(sid) ==
    {<<sev, count_rows(findings, sid, sev)>> :
        sev \in {v \in Severities : count_rows(findings, sid, v) > 0}}

\* CASE severity WHEN 'critical' THEN 1 ... WHEN 'info' THEN 5 END
severity_rank(sev) ==
    CASE sev = "critical" -> 1
      [] sev = "high" -> 2
      [] sev = "medium" -> 3
      [] sev = "low" -> 4
      [] sev = "info" -> 5

order_by_id_only(f, g) == f.id < g.id

\* ORDER BY CASE severity ... END, id
order_by(f, g) ==
    \/ severity_rank(f.severity) < severity_rank(g.severity)
    \/ severity_rank(f.severity) = severity_rank(g.severity) /\ f.id < g.id

RECURSIVE Sorted(_)
Sorted(rows) ==
    IF rows = {} THEN <<>>
    ELSE LET first == CHOOSE f \in rows : \A g \in rows \ {f} : order_by(f, g)
         IN  <<first>> \o Sorted(rows \ {first})

\* get_findings_by_session: (id, severity, title) of the session's rows with
\* false_positive = 0, in the order of order_by.
get_findings_by_session(sid) ==
    LET rows == Sorted({f \in findings : f.session_id = sid /\ ~f.false_positive})
    IN  [i \in 1 .. Len(rows) |->
            [id |-> rows[i].id, severity |-> rows[i].severity, title |-> rows[i].title]]

(***************************************************************************)
(* A client of the store: any sequence of Database calls and statements,   *)
(* on a store that starts empty, while the clock advances.                 *)
(***************************************************************************)
non_store == <<fuzz_state, inputs, driver, shared, locals, decisions, history, outcome, library,
               handler, analyzer, locking>>

MaxFaults == 1

HttpB == SUrl("http", HostB, <<"/">>, <<>>)
HttpBEnv == SUrl("http", HostB, <<"/", ".", "e", "n", "v">>, <<>>)
NodeChoices == {[url |-> HttpB, domain |-> HostB], [url |-> HttpBEnv, domain |-> HostB]}
FindingTitles == {"Insecure Transport (HTTP)"}
SessionIds == 1 .. MaxUuid
RowIds == 1 .. MaxRowId

StoreInit ==
    /\ StoreEmpty
    /\ io_faults \in 0 .. MaxFaults
    /\ HandlerIdle
    /\ AnalyzerIdle
    /\ LockIdle
    /\ LibraryIdle
    /\ CrawlIdle
    /\ FuzzIdle

\* current_timestamp() moves on.
Tick ==
    /\ db_now < MaxTime
    /\ db_now' = db_now + 1
    /\ UNCHANGED <<tables, db_seq, db_ret, io_faults, non_store>>

CreateSession ==
    /\ db_seq.uuid <= MaxUuid
    /\ \E scan_type \in {"crawl", "scan"} : create_session(scan_type)
    /\ UNCHANGED <<db_now, non_store>>

CompleteSession ==
    /\ \E id \in SessionIds : complete_session(id)
    /\ UNCHANGED <<db_now, non_store>>

FailSession ==
    /\ \E id \in SessionIds : fail_session(id)
    /\ UNCHANGED <<db_now, non_store>>

CreateMap ==
    /\ db_seq.uuid <= MaxUuid
    /\ \E sid \in SessionIds : create_map(sid)
    /\ UNCHANGED <<db_now, non_store>>

InsertNode ==
    /\ db_seq.nodes <= MaxRowId
    /\ \E mid \in SessionIds, node \in NodeChoices : insert_node(mid, node)
    /\ UNCHANGED <<db_now, non_store>>

InsertFindingOf(severities) ==
    /\ db_seq.findings <= MaxRowId
    /\ \E sid \in SessionIds, nid \in RowIds, sev \in severities, title \in FindingTitles :
          insert_finding(sid, [node_id |-> nid, severity |-> sev, title |-> title])
    /\ UNCHANGED <<db_now, non_store>>

InsertFinding == InsertFindingOf(Severities)
InsertInfoFinding == InsertFindingOf({"info"})

InsertTechnology ==
    /\ db_seq.technologies <= MaxAuxId
    /\ \E nid \in RowIds : insert_technology(nid)
    /\ UNCHANGED <<db_now, non_store>>

LogHttpTransaction ==
    /\ db_seq.http_transactions <= MaxAuxId
    /\ \E sid \in SessionIds, nid \in RowIds \cup {NULL} : log_http_transaction(sid, nid)
    /\ UNCHANGED <<db_now, non_store>>

SqlInsertEdge ==
    /\ db_seq.edges <= MaxAuxId
    /\ \E mid \in SessionIds, src \in RowIds, tgt \in RowIds :
          sql_insert_edge(mid, src, tgt, "navigation")
    /\ UNCHANGED <<db_now, non_store>>

SqlMarkFalsePositive ==
    /\ \E f \in findings : ~f.false_positive /\ sql_mark_false_positive(f.id)
    /\ UNCHANGED <<db_now, non_store>>

SqlDeleteNode ==
    /\ \E n \in nodes : sql_delete_node(n.id)
    /\ UNCHANGED <<db_now, non_store>>

SqlDeleteSession ==
    /\ \E s \in crawl_sessions : sql_delete_session(s.id)
    /\ UNCHANGED <<db_now, non_store>>

\* The life of sessions.
SessionNext ==
    \/ Tick
    \/ CreateSession
    \/ CompleteSession
    \/ FailSession

SessionSpec == StoreInit /\ [][SessionNext]_vars

\* The findings of scans and how they are read back.
FindingsNext ==
    \/ CreateSession
    \/ CreateMap
    \/ InsertNode
    \/ InsertFinding
    \/ SqlMarkFalsePositive

FindingsSpec == StoreInit /\ [][FindingsNext]_vars

\* The rows of scans and what becomes of them when a parent row is deleted.
StoreNext ==
    \/ CreateSession
    \/ CreateMap
    \/ InsertNode
    \/ InsertInfoFinding
    \/ InsertTechnology
    \/ LogHttpTransaction
    \/ SqlInsertEdge
    \/ SqlDeleteNode
    \/ SqlDeleteSession

StoreSpec == StoreInit /\ [][StoreNext]_vars

(***************************************************************************)
(* C22. No two rows of nodes have the same (map_id, url), and an           *)
(* insert_node whose (map_id, url) is already there returns an error and   *)
(* leaves the nodes table as it was.                                       *)
(***************************************************************************)
C22_NodeUnique ==
    /\ [](\A n1, n2 \in nodes : (n1.map_id = n2.map_id /\ n1.url = n2.url) => n1 = n2)
    /\ [][\A mid \in SessionIds, node \in NodeChoices :
             (/\ insert_node(mid, node)
              /\ \E n \in nodes : n.map_id = mid /\ n.url = node.url)
             => (~db_ret'.ok /\ nodes' = nodes /\ db_seq' = db_seq)]_vars

\* A map holds a node and an insert_node has just been turned down by
\* UNIQUE(map_id, url).
C22_Witness ==
    /\ db_ret = Err("insert_node", "UNIQUE")
    /\ nodes # {}

(***************************************************************************)
(* C23. A session starts running with no end time, leaves running only for *)
(* completed or failed with its end time set, and once it is completed or  *)
(* failed no later complete_session or fail_session changes its row.       *)
(***************************************************************************)
C23_SessionLifecycle ==
    /\ [](\A s \in crawl_sessions : s.status = "running" <=> s.end_time = NULL)
    /\ [][/\ \A s \in crawl_sessions' :
                (\A t \in crawl_sessions : t.id # s.id)
                => (s.status = "running" /\ s.end_time = NULL)
          /\ \A s \in crawl_sessions :
                IF s.status = "running"
                THEN \E t \in crawl_sessions' :
                        /\ t.id = s.id
                        /\ \/ t = s
                           \/ t.status \in {"completed", "failed"} /\ t.end_time = db_now
                ELSE s \in crawl_sessions']_vars

(***************************************************************************)
(* C26. The counts that get_findings_count_by_severity returns for a       *)
(* session sum to the number of the session's findings that are not false  *)
(* positives, each severity's count is the number of such findings with    *)
(* that severity, and a finding inserted for one session moves the count   *)
(* of its own session and severity by one and no other count.              *)
(***************************************************************************)
CountOf(counts, sev) ==
    IF \E c \in counts : c[1] = sev THEN (CHOOSE c \in counts : c[1] = sev)[2] ELSE 0

C26_SeverityCounts ==
    /\ [](\A sid \in SessionIds :
            LET counts == get_findings_count_by_severity(sid)
                mine == {f \in findings : f.session_id = sid /\ ~f.false_positive}
            IN  /\ \A c \in counts : c[1] \in Severities /\ c[2] > 0
                /\ \A c, d \in counts : c[1] = d[1] => c = d
                /\ SumOver([sev \in Severities |-> CountOf(counts, sev)], Severities) = Cardinality(mine)
                /\ \A sev \in Severities :
                      CountOf(counts, sev) = Cardinality({f \in mine : f.severity = sev}))
    /\ [][(db_ret'.call = "insert_finding" /\ db_ret'.ok /\ findings' # findings) =>
             LET new == CHOOSE f \in findings' : f.id = db_ret'.id IN
             \A sid \in SessionIds, sev \in Severities :
                 CountOf(get_findings_count_by_severity(sid)', sev) =
                     CountOf(get_findings_count_by_severity(sid), sev)
                     + (IF sid = new.session_id /\ sev = new.severity THEN 1 ELSE 0)]_vars

\* Two sessions hold one finding each, of different severities.
C26_Witness ==
    \E f, g \in findings :
        /\ f.session_id # g.session_id
        /\ f.severity # g.severity
        /\ ~f.false_positive /\ ~g.false_positive
        /\ get_findings_count_by_severity(f.session_id) = {<<f.severity, 1>>}

(***************************************************************************)
(* C27. get_findings_by_session returns each of the session's findings     *)
(* that is not a false positive exactly once and nothing else, ordered by  *)
(* severity critical, high, medium, low, info and, within one severity, by *)
(* ascending id.                                                           *)
(***************************************************************************)
C27_FindingsSorted ==
    \A sid \in SessionIds :
        LET rows == get_findings_by_session(sid)
            mine == {f \in findings : f.session_id = sid /\ ~f.false_positive}
        IN  /\ Len(rows) = Cardinality(mine)
            /\ \A f \in mine :
                  \E i \in 1 .. Len(rows) :
                      rows[i] = [id |-> f.id, severity |-> f.severity, title |-> f.title]
            /\ \A i, j \in 1 .. Len(rows) :
                  i < j =>
                      LET a == rows[i].severity
                          b == rows[j].severity
                          before == {<<"critical", "high">>, <<"critical", "medium">>,
                                     <<"critical", "low">>, <<"critical", "info">>,
                                     <<"high", "medium">>, <<"high", "low">>,
                                     <<"high", "info">>, <<"medium", "low">>,
                                     <<"medium", "info">>, <<"low", "info">>}
                      IN  \/ <<a, b>> \in before
                          \/ a = b /\ rows[i].id < rows[j].id

\* A critical finding was inserted after an info finding of the same session
\* and is returned in front of it.
C27_Witness ==
    \E f, g \in findings :
        /\ f.session_id = g.session_id
        /\ f.id < g.id
        /\ f.severity = "info" /\ g.severity = "critical"
        /\ ~f.false_positive /\ ~g.false_positive
        /\ Len(get_findings_by_session(f.session_id)) = 2
        /\ get_findings_by_session(f.session_id)[1].id = g.id

(***************************************************************************)
(* C28. Deleting a session removes its map, the map's nodes and edges and  *)
(* the session's findings and HTTP transactions; deleting a node removes   *)
(* its edges, findings and technologies and sets node_id to NULL in the    *)
(* transactions that referenced it.  In every state of the store each row  *)
(* that references a parent row references one that exists.                *)
(***************************************************************************)
Ids(rows) == {r.id : r \in rows}

NoOrphan ==
    /\ \A m \in maps : m.session_id \in Ids(crawl_sessions)
    /\ \A n \in nodes : n.map_id \in Ids(maps)
    /\ \A e \in edges : /\ e.map_id \in Ids(maps)
                        /\ e.source_node_id \in Ids(nodes)
                        /\ e.target_node_id \in Ids(nodes)
    /\ \A f \in findings : f.session_id \in Ids(crawl_sessions) /\ f.node_id \in Ids(nodes)
    /\ \A t \in technologies : t.node_id \in Ids(nodes)
    /\ \A t \in http_transactions :
          /\ t.session_id \in Ids(crawl_sessions)
          /\ t.node_id = NULL \/ t.node_id \in Ids(nodes)

C28_DeleteCascades ==
    /\ []NoOrphan
    /\ [][\A nid \in RowIds :
             (db_ret'.call = "sql_delete_node" /\ nid \in Ids(nodes) \ Ids(nodes')) =>
                 /\ \A e \in edges' : e.source_node_id # nid /\ e.target_node_id # nid
                 /\ \A f \in findings' : f.node_id # nid
                 /\ \A t \in technologies' : t.node_id # nid
                 /\ Ids(http_transactions') = Ids(http_transactions)
                 /\ \A t \in http_transactions' : t.node_id # nid
                 /\ Ids(nodes') = Ids(nodes) \ {nid}
                 /\ crawl_sessions' = crawl_sessions /\ maps' = maps]_vars
    /\ [][\A sid \in SessionIds :
             (db_ret'.call = "sql_delete_session"
                 /\ sid \in Ids(crawl_sessions) \ Ids(crawl_sessions')) =>
                 LET gone == {m.id : m \in {x \in maps : x.session_id = sid}} IN
                 /\ \A m \in maps' : m.session_id # sid
                 /\ \A n \in nodes' : n.map_id \notin gone
                 /\ \A e \in edges' : e.map_id \notin gone
                 /\ \A f \in findings' : f.session_id # sid
                 /\ \A t \in http_transactions' : t.session_id # sid
                 /\ Ids(crawl_sessions') = Ids(crawl_sessions) \ {sid}]_vars

\* A node that an edge, a finding, a technology and a transaction referenced
\* has just been deleted; the transaction is still there, with no node.
C28_Witness ==
    /\ db_ret.call = "sql_delete_node"
    /\ db_seq.edges > 1 /\ edges = {}
    /\ db_seq.findings > 1 /\ findings = {}
    /\ db_seq.technologies > 1 /\ technologies = {}
    /\ \E t \in http_transactions : t.node_id = NULL
    /\ crawl_sessions # {}

\* A session whose map held a node with a finding has just been deleted and
\* took them all with it.
C28_SessionWitness ==
    /\ db_ret.call = "sql_delete_session"
    /\ db_seq.nodes > 1 /\ nodes = {}
    /\ db_seq.findings > 1 /\ findings = {}
    /\ db_seq.http_transactions > 1 /\ http_transactions = {}
    /\ maps = {}

(***************************************************************************)
(* The passive analyzers (rinzler-core/src/security.rs).  The URLs of the  *)
(* model have no dot segments and no character that Url::parse would       *)
(* escape, so the path the analyzers read is the path as written.          *)
(***************************************************************************)
\* Url::parse on a result's URL
SParseOk(u) == u.scheme # ""

\* Url::path(): "/" for an http(s) URL written without a path
s_url_path(u) == IF u.path = <<>> THEN <<"/">> ELSE u.path

UpperToLower ==
    [A |-> "a", B |-> "b", C |-> "c", D |-> "d", E |-> "e", F |-> "f", G |-> "g",
     H |-> "h", I |-> "i", J |-> "j", K |-> "k", L |-> "l", M |-> "m", N |-> "n",
     O |-> "o", P |-> "p", Q |-> "q", R |-> "r", S |-> "s", T |-> "t", U |-> "u",
     V |-> "v", W |-> "w", X |-> "x", Y |-> "y", Z |-> "z"]

\* str::to_lowercase
to_lowercase(s) ==
    [i \in 1 .. Len(s) |-> IF s[i] \in DOMAIN UpperToLower THEN UpperToLower[s[i]] ELSE s[i]]

\* str::contains
Contains(s, pattern) ==
    \E i \in 1 .. (Len(s) - Len(pattern) + 1) : SubSeq(s, i, i + Len(pattern) - 1) = pattern

\* str::starts_with
StartsWith(s, prefix) == Len(s) >= Len(prefix) /\ SubSeq(s, 1, Len(prefix)) = prefix

Pattern(pattern, title, severity, cwe) ==
    [pattern |-> pattern, title |-> title, severity |-> severity, cwe |-> cwe]

interesting_patterns ==
    <<Pattern(<<".", "g", "i", "t", "/">>, "Git Repository Exposed", "high", "CWE-538"),
      Pattern(<<".", "e", "n", "v">>, "Environment File Exposed", "critical", "CWE-200"),
      Pattern(<<".", "g", "i", "t", "/", "c", "o", "n", "f", "i", "g">>,
              "Git Configuration Exposed", "high", "CWE-538"),
      Pattern(<<"/", ".", "a", "w", "s", "/">>, "AWS Credentials Directory", "critical",
              "CWE-200"),
      Pattern(<<"/", "b", "a", "c", "k", "u", "p">>, "Backup File Accessible", "medium",
              "CWE-530"),
      Pattern(<<".", "s", "q", "l">>, "SQL Dump File", "high", "CWE-530"),
      Pattern(<<".", "b", "a", "k">>, "Backup File", "medium", "CWE-530"),
      Pattern(<<"w", "e", "b", ".", "c", "o", "n", "f", "i", "g">>,
              "Configuration File Exposed", "high", "CWE-215"),
      Pattern(<<"p", "h", "p", "i", "n", "f", "o", ".", "p", "h", "p">>, "PHP Info Page",
              "info", "CWE-200"),
      Pattern(<<"/", "a", "d", "m", "i", "n">>, "Admin Interface", "info", "CWE-200"),
      Pattern(<<"/", "a", "p", "i", "/">>, "API Endpoint", "info", "CWE-200")>>

SFinding(node_id, finding_type, severity, title, cwe_id) ==
    [node_id |-> node_id, finding_type |-> finding_type, severity |-> severity,
     title |-> title, cwe_id |-> cwe_id]

\* Url::host_str(): the parser lowercases the host of an http(s) URL; <<>>
\* stands for None
host_str(u) == to_lowercase(u.host)

check_insecure_transport_any_host(result, node_id) ==
    IF SParseOk(result.url) /\ result.url.scheme = "http" /\ host_str(result.url) # <<>>
    THEN <<SFinding(node_id, "InsecureTransport", "medium", "Insecure Transport (HTTP)",
                    "CWE-319")>>
    ELSE <<>>

check_insecure_transport(result, node_id) ==
    IF /\ SParseOk(result.url)
       /\ result.url.scheme = "http"
       /\ host_str(result.url) # <<>>
       /\ ~StartsWith(host_str(result.url), <<"1", "2", "7", ".">>)
       /\ host_str(result.url) # <<"l", "o", "c", "a", "l", "h", "o", "s", "t">>
    THEN <<SFinding(node_id, "InsecureTransport", "medium", "Insecure Transport (HTTP)",
                    "CWE-319")>>
    ELSE <<>>

\* The loop over interesting_patterns from position i: the first pattern that
\* the path contains, with a status in [200, 300), makes the one finding.
RECURSIVE first_match(_, _, _, _)
first_match(path, result, node_id, i) ==
    IF i > Len(interesting_patterns) THEN <<>>
    ELSE IF /\ Contains(path, interesting_patterns[i].pattern)
            /\ result.status_code >= 200
            /\ result.status_code < 300
    THEN <<SFinding(node_id, "InterestingFile", interesting_patterns[i].severity,
                    interesting_patterns[i].title, interesting_patterns[i].cwe)>>
    ELSE first_match(path, result, node_id, i + 1)

check_interesting_files_all(result, node_id) ==
    IF SParseOk(result.url)
    THEN SelectSeq([k \in 1 .. Len(interesting_patterns) |->
                       SFinding(node_id, "InterestingFile", interesting_patterns[k].severity,
                                interesting_patterns[k].title, interesting_patterns[k].cwe)],
                   LAMBDA f : \E k \in 1 .. Len(interesting_patterns) :
                                 /\ interesting_patterns[k].title = f.title
                                 /\ Contains(to_lowercase(s_url_path(result.url)),
                                             interesting_patterns[k].pattern)
                                 /\ result.status_code >= 200
                                 /\ result.status_code < 300)
    ELSE <<>>

check_interesting_files(result, node_id) ==
    IF SParseOk(result.url)
    THEN first_match(to_lowercase(s_url_path(result.url)), result, node_id, 1)
    ELSE <<>>

check_error_messages(result, node_id) ==
    IF result.status_code >= 500 /\ result.status_code < 600
    THEN <<SFinding(node_id, "InformationDisclosure", "low",
                    "Server Error - " \o ToString(result.status_code), "CWE-209")>>
    ELSE <<>>

analyze_without_files(result, node_id) ==
    check_insecure_transport(result, node_id) \o check_error_messages(result, node_id)

analyze_crawl_result(result, node_id) ==
    check_insecure_transport(result, node_id)
        \o check_interesting_files(result, node_id)
        \o check_error_messages(result, node_id)

(***************************************************************************)
(* The analyzers at work on one crawl result.                              *)
(***************************************************************************)
HostWebConfig == <<"w", "e", "b", ".", "c", "o", "n", "f", "i", "g">>
HostLocal == <<"l", "o", "c", "a", "l", "h", "o", "s", "t">>
HostLoop == <<"1", "2", "7", ".", "1">>
HostLocalUpper == <<"L", "o", "c", "a", "l", "H", "O", "S", "T">>
HostLoopName == <<"1", "2", "7", ".", "b", ".", "c">>
HostNear127 == <<"1", "2", "7", "b", ".", "c">>

PathEnv == <<"/", ".", "e", "n", "v">>
PathEnvUpper == <<"/", ".", "E", "N", "V">>
PathGitConfig == <<"/", ".", "g", "i", "t", "/", "c", "o", "n", "f", "i", "g">>
PathBackupSql == <<"/", "b", "a", "c", "k", "u", "p", ".", "s", "q", "l">>
PathSqlBak == <<"/", "a", ".", "s", "q", "l", ".", "b", "a", "k">>
PathAdminApi == <<"/", "a", "d", "m", "i", "n", "/", "a", "p", "i", "/">>
PathIndex == <<"/", "i", "n", "d", "e", "x">>
QueryEnv == <<"f", "=", ".", "e", "n", "v">>

AnalyzedUrls ==
    {SUrl(scheme, HostX, path, <<>>) :
        scheme \in {"http", "https"},
        path \in {<<>>, PathEnv, PathEnvUpper, PathGitConfig, PathBackupSql, PathSqlBak,
                  PathAdminApi, PathIndex}}
    \cup {SUrl("https", HostX, PathIndex, QueryEnv),
          SUrl("https", HostWebConfig, <<"/">>, <<>>),
          SUrl("http", HostLocal, PathEnv, <<>>),
          SUrl("http", HostLoop, <<"/">>, <<>>),
          SUrl("http", HostLocalUpper, <<"/">>, <<>>),
          SUrl("http", HostLoopName, <<"/">>, <<>>),
          SUrl("http", HostNear127, <<"/">>, <<>>),
          SUrl("https", HostLocal, <<"/">>, <<>>),
          SUrl("", <<>>, PathEnv, <<>>)}

AnalyzedStatuses == {0, 200, 204, 299, 300, 404, 500, 503, 600}
AnalyzedNodeIds == {0, 7}

AnalyzeInit ==
    /\ a_result \in [url : AnalyzedUrls, status_code : AnalyzedStatuses]
    /\ a_node_id \in AnalyzedNodeIds
    /\ a_findings = <<>>
    /\ a_done = "none"
    /\ StoreEmpty /\ io_faults = 0
    /\ HandlerIdle
    /\ LibraryIdle
    /\ LockIdle
    /\ CrawlIdle
    /\ FuzzIdle

non_analyzer == <<fuzz_state, inputs, driver, shared, locals, decisions, history, outcome, library,
                  store_state, handler, locking>>

CheckInterestingFiles ==
    /\ a_done = "none"
    /\ a_findings' = check_interesting_files(a_result, a_node_id)
    /\ a_done' = "files"
    /\ UNCHANGED <<a_result, a_node_id, non_analyzer>>

CheckInsecureTransport ==
    /\ a_done = "none"
    /\ a_findings' = check_insecure_transport(a_result, a_node_id)
    /\ a_done' = "transport"
    /\ UNCHANGED <<a_result, a_node_id, non_analyzer>>

AnalyzeCrawlResult ==
    /\ a_done = "none"
    /\ a_findings' = analyze_crawl_result(a_result, a_node_id)
    /\ a_done' = "all"
    /\ UNCHANGED <<a_result, a_node_id, non_analyzer>>

AnalyzeNext == CheckInsecureTransport \/ CheckInterestingFiles \/ AnalyzeCrawlResult

AnalyzeSpec == AnalyzeInit /\ [][AnalyzeNext]_vars

(***************************************************************************)
(* C29. check_interesting_files returns at most one finding.  When the     *)
(* status is in [200, 300) and the lowercased path contains a pattern, it  *)
(* returns one finding with the title, severity and CWE of the first       *)
(* pattern of the list that the path contains; otherwise it returns none.  *)
(* Neither the host nor the query string is matched.                       *)
(***************************************************************************)
LowerPath(u) == to_lowercase(s_url_path(u))
Hits(u) == {i \in 1 .. Len(interesting_patterns) :
               Contains(LowerPath(u), interesting_patterns[i].pattern)}
FirstHit(u) == CHOOSE i \in Hits(u) : \A j \in Hits(u) : i <= j

C29_FirstPatternWins ==
    a_done = "files" =>
        LET u == a_result.url
            status == a_result.status_code
        IN  /\ Len(a_findings) <= 1
            /\ IF SParseOk(u) /\ status >= 200 /\ status < 300 /\ Hits(u) # {}
               THEN /\ Len(a_findings) = 1
                    /\ a_findings[1].node_id = a_node_id
                    /\ a_findings[1].finding_type = "InterestingFile"
                    /\ a_findings[1].title = interesting_patterns[FirstHit(u)].title
                    /\ a_findings[1].severity = interesting_patterns[FirstHit(u)].severity
                    /\ a_findings[1].cwe_id = interesting_patterns[FirstHit(u)].cwe
               ELSE a_findings = <<>>
            /\ a_findings # <<>> =>
                  /\ u.path \in {PathEnv, PathEnvUpper} =>
                        a_findings[1].severity = "critical" /\ a_findings[1].cwe_id = "CWE-200"
                  /\ u.path = PathGitConfig =>
                        a_findings[1].title = "Git Repository Exposed"
                  /\ u.path = PathBackupSql => a_findings[1].severity = "medium"
                  /\ u.path = PathSqlBak => a_findings[1].severity = "high"
                  /\ u.path = PathAdminApi => a_findings[1].title = "Admin Interface"
            /\ (u.path \in {<<>>, <<"/">>, PathIndex}) => a_findings = <<>>

\* A 204 answer for /a.sql.bak, which holds the patterns .sql and .bak, was
\* reported once, as an SQL dump.
C29_Witness ==
    /\ a_done = "files"
    /\ a_result.url.path = PathSqlBak
    /\ a_result.status_code = 204
    /\ Len(a_findings) = 1
    /\ a_findings[1].title = "SQL Dump File"

\* Patterns in the host and in the query string were passed over.
C29_HostQueryWitness ==
    /\ a_done = "files"
    /\ a_result.status_code = 200
    /\ a_result.url.host = HostWebConfig \/ a_result.url.query = QueryEnv
    /\ a_findings = <<>>

(***************************************************************************)
(* C30. analyze_crawl_result returns the findings of the insecure-         *)
(* transport, interesting-file and server-error checks and nothing else,   *)
(* each with the node_id it was given: http://x/.env with status 200 gives *)
(* exactly an InsecureTransport/medium and an InterestingFile/critical     *)
(* finding with CWE-200, an https URL with no pattern and status 200 gives *)
(* none.                                                                   *)
(***************************************************************************)
\* a host the transport check leaves alone: localhost, or a name that begins
\* with "127."
IsLoopbackName(h) ==
    \/ to_lowercase(h) = HostLocal
    \/ (Len(h) >= 4 /\ h[1] = "1" /\ h[2] = "2" /\ h[3] = "7" /\ h[4] = ".")

OfType(fs, t) == SelectSeq(fs, LAMBDA f : f.finding_type = t)

C30_AnalyzerUnion ==
    a_done = "all" =>
        LET u == a_result.url
            status == a_result.status_code
            insecure == /\ u.scheme = "http"
                        /\ ~IsLoopbackName(u.host)
            file == SParseOk(u) /\ status >= 200 /\ status < 300 /\ Hits(u) # {}
            error == status >= 500 /\ status < 600
        IN  /\ \A i \in 1 .. Len(a_findings) :
                  /\ a_findings[i].node_id = a_node_id
                  /\ a_findings[i].finding_type \in
                        {"InsecureTransport", "InterestingFile", "InformationDisclosure"}
            /\ Len(OfType(a_findings, "InsecureTransport")) = (IF insecure THEN 1 ELSE 0)
            /\ Len(OfType(a_findings, "InterestingFile")) = (IF file THEN 1 ELSE 0)
            /\ Len(OfType(a_findings, "InformationDisclosure")) = (IF error THEN 1 ELSE 0)
            /\ \A i \in 1 .. Len(a_findings) :
                  /\ a_findings[i].finding_type = "InsecureTransport" =>
                        a_findings[i].severity = "medium"
                  /\ a_findings[i].finding_type = "InformationDisclosure" =>
                        a_findings[i].severity = "low"
            /\ (u = SUrl("http", HostX, PathEnv, <<>>) /\ status = 200) =>
                  /\ Len(a_findings) = 2
                  /\ \E i \in 1 .. 2 : /\ a_findings[i].finding_type = "InsecureTransport"
                                       /\ a_findings[i].severity = "medium"
                  /\ \E i \in 1 .. 2 : /\ a_findings[i].finding_type = "InterestingFile"
                                       /\ a_findings[i].severity = "critical"
                                       /\ a_findings[i].title = "Environment File Exposed"
                                       /\ a_findings[i].cwe_id = "CWE-200"
            /\ (u.scheme = "https" /\ Hits(u) = {} /\ status = 200) => a_findings = <<>>

\* http://x.y/.env answered 200 and the analyzer returned two findings for
\* node 7.
C30_Witness ==
    /\ a_done = "all"
    /\ a_result = [url |-> SUrl("http", HostX, PathEnv, <<>>), status_code |-> 200]
    /\ a_node_id = 7
    /\ Len(a_findings) = 2

\* https://x.y/index answered 200 and the analyzer returned nothing.
C30_CleanWitness ==
    /\ a_done = "all"
    /\ a_result = [url |-> SUrl("https", HostX, PathIndex, <<>>), status_code |-> 200]
    /\ a_findings = <<>>

(***************************************************************************)
(* handle_crawl (rinzler/src/handlers.rs): the session and the map are     *)
(* created, execute_crawl runs, and its results are written to the store   *)
(* one by one.  execute_crawl has a single return, Ok(all_results)         *)
(* (crawl.rs 214); its list may hold a URL twice.                          *)
(***************************************************************************)
MaxResults == 2

HttpsB == SUrl("https", HostB, <<"/">>, <<>>)
CrawlResults ==
    {[url |-> HttpB, status_code |-> 200], [url |-> HttpB, status_code |-> 500],
     [url |-> HttpBEnv, status_code |-> 200], [url |-> HttpsB, status_code |-> 200]}
execute_crawl_returns == {[ok |-> TRUE, results |-> rs] : rs \in SeqsUpTo(CrawlResults, MaxResults)}

HandleInit ==
    /\ StoreEmpty
    /\ io_faults \in 0 .. MaxFaults
    /\ hpc = "create_session"
    /\ session_id = NULL
    /\ map_id = NULL
    /\ h_results = <<>>
    /\ result_i = 0
    /\ h_findings = <<>>
    /\ findings_count = 0
    /\ exit_code = "none"
    /\ persist_log = <<>>
    /\ AnalyzerIdle
    /\ LockIdle
    /\ LibraryIdle
    /\ CrawlIdle
    /\ FuzzIdle

non_handler == <<fuzz_state, inputs, driver, shared, locals, decisions, history, outcome, library,
                 analyzer, db_now, locking>>

\* let session_id = match db.create_session("crawl", &seed_urls_json)
HandleCreateSession ==
    /\ hpc = "create_session"
    /\ create_session("crawl")
    /\ IF db_ret'.ok THEN
           /\ session_id' = db_ret'.id
           /\ hpc' = "create_map"
           /\ UNCHANGED exit_code
       ELSE
           /\ exit_code' = "1"
           /\ hpc' = "exited"
           /\ UNCHANGED session_id
    /\ UNCHANGED <<map_id, h_results, result_i, h_findings, findings_count, persist_log,
                   non_handler>>

\* let map_id = match db.create_map(&session_id)
HandleCreateMap ==
    /\ hpc = "create_map"
    /\ create_map(session_id)
    /\ IF db_ret'.ok THEN
           /\ map_id' = db_ret'.id
           /\ hpc' = "execute_crawl"
           /\ UNCHANGED exit_code
       ELSE
           /\ exit_code' = "1"
           /\ hpc' = "exited"
           /\ UNCHANGED map_id
    /\ UNCHANGED <<session_id, h_results, result_i, h_findings, findings_count, persist_log,
                   non_handler>>

\* let all_results = match execute_crawl(...).await: the Err arm fails the
\* session and exits.
HandleExecuteCrawl ==
    /\ hpc = "execute_crawl"
    /\ \E ret \in execute_crawl_returns :
          IF ret.ok THEN
              /\ h_results' = ret.results
              /\ result_i' = 1
              /\ findings_count' = 0
              /\ hpc' = "insert_node"
              /\ UNCHANGED <<store_state, exit_code>>
          ELSE
              /\ fail_session(session_id)
              /\ exit_code' = "1"
              /\ hpc' = "exited"
              /\ UNCHANGED <<h_results, result_i, findings_count, db_now>>
    /\ UNCHANGED <<session_id, map_id, h_findings, persist_log, non_handler>>

\* domain: the URL's host, or "unknown"
node_of(result) ==
    [url |-> result.url,
     domain |-> IF SParseOk(result.url) /\ result.url.host # <<>> THEN result.url.host
                ELSE <<"u", "n", "k", "n", "o", "w", "n">>]

\* match db.insert_node(&map_id, &node): Ok runs the security checks on the
\* result with the new node's id, Err prints a warning and goes on.
HandleInsertNode ==
    /\ hpc = "insert_node"
    /\ result_i <= Len(h_results)
    /\ insert_node(map_id, node_of(h_results[result_i]))
    /\ persist_log' = Append(persist_log, db_ret'.id)
    /\ LET found == IF db_ret'.ok THEN analyze_crawl_result(h_results[result_i], db_ret'.id)
                    ELSE <<>>
       IN  /\ h_findings' = found
           /\ IF found = <<>> THEN result_i' = result_i + 1 /\ UNCHANGED hpc
              ELSE hpc' = "insert_finding" /\ UNCHANGED result_i
    /\ UNCHANGED <<session_id, map_id, h_results, findings_count, exit_code, non_handler>>

count_every_attempt(count, ret) == count + 1

\* if db.insert_finding(&session_id, &finding).is_ok() { findings_count += 1; }
count_if_ok(count, ret) == IF ret.ok THEN count + 1 ELSE count

\* One turn of for finding in findings.
HandleInsertFinding ==
    /\ hpc = "insert_finding"
    /\ insert_finding(session_id, Head(h_findings))
    /\ findings_count' = count_if_ok(findings_count, db_ret')
    /\ h_findings' = Tail(h_findings)
    /\ IF Tail(h_findings) = <<>> THEN result_i' = result_i + 1 /\ hpc' = "insert_node"
       ELSE UNCHANGED <<result_i, hpc>>
    /\ UNCHANGED <<session_id, map_id, h_results, exit_code, persist_log, non_handler>>

\* if let Err(e) = db.complete_session(&session_id): the error is only logged.
HandleCompleteSession ==
    /\ hpc = "insert_node"
    /\ result_i > Len(h_results)
    /\ complete_session(session_id)
    /\ hpc' = "done"
    /\ UNCHANGED <<session_id, map_id, h_results, result_i, h_findings, findings_count,
                   exit_code, persist_log, non_handler>>

HandleNext ==
    \/ HandleCreateSession
    \/ HandleCreateMap
    \/ HandleExecuteCrawl
    \/ HandleInsertNode
    \/ HandleInsertFinding
    \/ HandleCompleteSession

HandleSpec == HandleInit /\ [][HandleNext]_vars

(***************************************************************************)
(* C24. When handle_crawl ends with an unrecoverable error after it has    *)
(* created its session, the session is failed: it is neither left running  *)
(* nor completed.                                                          *)
(***************************************************************************)
C24_FailedOnError ==
    (hpc = "exited" /\ session_id # NULL) =>
        \A s \in crawl_sessions : s.id = session_id => s.status = "failed"

(***************************************************************************)
(* C25. The results are persisted one by one.  A result whose insert_node  *)
(* fails leaves no finding in the store and the loop goes on with the next *)
(* result; every finding in the store comes from the analysis of the       *)
(* result whose node it names; findings_count is the number of findings    *)
(* stored; and when the storage itself never fails, every result but a     *)
(* repeated URL has its node and all of its findings in the store.         *)
(***************************************************************************)
FindingsOfNode(nid) == {f \in findings : f.node_id = nid}

C25_PerRecordInserts ==
    /\ [](hpc # "idle" => findings_count = Cardinality(findings))
    /\ [](hpc # "idle" =>
            /\ \A f \in findings :
                  \E i \in DOMAIN persist_log :
                      /\ persist_log[i] = f.node_id
                      /\ f.session_id = session_id
                      /\ \E g \in Range(analyze_crawl_result(h_results[i], f.node_id)) :
                            g.title = f.title /\ g.severity = f.severity
            /\ \A n \in nodes :
                  \E i \in DOMAIN persist_log :
                      persist_log[i] = n.id /\ h_results[i].url = n.url)
    /\ [](hpc = "done" =>
            /\ Len(persist_log) = Len(h_results)
            /\ \A i \in DOMAIN h_results :
                  \/ persist_log[i] # NULL
                  \/ io_faults < MaxFaults
                  \/ \E j \in 1 .. (i - 1) : h_results[j].url = h_results[i].url
            /\ io_faults = MaxFaults =>
                  \A i \in DOMAIN h_results :
                      persist_log[i] # NULL =>
                          Cardinality(FindingsOfNode(persist_log[i])) =
                              Len(analyze_crawl_result(h_results[i], persist_log[i])))
    /\ [][(hpc = "insert_node" /\ db_ret'.call = "insert_node" /\ ~db_ret'.ok) =>
             /\ findings' = findings
             /\ nodes' = nodes
             /\ h_findings' = <<>>
             /\ result_i' = result_i + 1
             /\ hpc' = "insert_node"]_vars

\* The second result repeats the URL of the first with another status: its
\* insert_node failed, the server-error finding of its analysis is not in the
\* store, and the finding of the first result is.
C25_Witness ==
    /\ hpc = "done"
    /\ io_faults = MaxFaults
    /\ h_results = <<[url |-> HttpB, status_code |-> 200], [url |-> HttpB, status_code |-> 500]>>
    /\ persist_log = <<1, NULL>>
    /\ findings_count = 1
    /\ \A f \in findings : f.title = "Insecure Transport (HTTP)"

\* A failed insert_node was followed by a result that was stored with both of
\* its findings.
C25_LaterResultWitness ==
    /\ hpc = "done"
    /\ Len(persist_log) = 2
    /\ persist_log[1] = NULL /\ persist_log[2] # NULL
    /\ findings_count = 2
    /\ Cardinality(FindingsOfNode(persist_log[2])) = 2

(***************************************************************************)
(* C31. check_insecure_transport returns exactly one finding, of type      *)
(* InsecureTransport, severity medium and CWE-319, attached to the node    *)
(* it was given, when the URL parses, its scheme is http and its host is   *)
(* neither localhost nor begins with "127."; in every other case (https,   *)
(* localhost, a 127.x host, an unparseable URL) it returns none.  The      *)
(* status code plays no part.                                              *)
(***************************************************************************)
C31_InsecureTransport ==
    a_done = "transport" =>
        IF /\ a_result.url.scheme = "http"
           /\ a_result.url.host # <<>>
           /\ ~IsLoopbackName(a_result.url.host)
        THEN /\ Len(a_findings) = 1
             /\ a_findings[1].finding_type = "InsecureTransport"
             /\ a_findings[1].severity = "medium"
             /\ a_findings[1].cwe_id = "CWE-319"
             /\ a_findings[1].node_id = a_node_id
        ELSE a_findings = <<>>

\* a plain-http page answered with a server error is reported
C31_Witness ==
    /\ a_done = "transport"
    /\ a_result.url = SUrl("http", HostX, PathIndex, <<>>)
    /\ a_result.status_code = 500
    /\ Len(a_findings) = 1

\* a localhost URL written in capitals is treated as localhost
C31_LocalWitness ==
    /\ a_done = "transport"
    /\ a_result.url = SUrl("http", HostLocalUpper, <<"/">>, <<>>)
    /\ a_findings = <<>>

(***************************************************************************)
(* build_test_url on its own (rinzler-core/src/fuzz.rs 525-545): one call  *)
(* on a base URL and a word.  A base here carries its scheme and port too. *)
(***************************************************************************)
BUrl(scheme, h, port, p, q) == [scheme |-> scheme, host |-> h, port |-> port, path |-> p, query |-> q]

WordDotDot == <<".", ".">>
WordDot == <<".">>
WordQuery == <<"a", "?", "b">>
WordUp == <<"a", "/", ".", ".", "/", "b">>
WordSpace == <<"a", " ", "b">>
WordSlashSlashB == <<"/", "/", "b">>

BuildBases ==
    {BUrl("http", HostB, 0, <<>>, <<>>),
     BUrl("http", HostB, 0, <<"/">>, <<>>),
     BUrl("http", HostB, 0, PathA, <<>>),
     BUrl("http", HostB, 0, PathA, <<"q">>),
     BUrl("https", HostX, 8080, <<"/", "a", "/">>, <<>>),
     BUrl("https", HostX, 8080, PathAA, <<>>),
     BUrl("", <<>>, 0, <<"n", "o">>, <<>>)}

BuildWords ==
    {<<>>, WordA, WordSlashB, WordSlashSlashB, WordDotDot, WordDot, WordQuery, WordUp, WordSpace}

BuildInit ==
    /\ p_call = "none"
    /\ p_base \in BuildBases
    /\ p_word \in BuildWords
    /\ p_file = <<>>
    /\ p_ret = <<>>
    /\ StoreEmpty /\ io_faults = 0
    /\ HandlerIdle
    /\ AnalyzerIdle
    /\ LockIdle
    /\ CrawlIdle
    /\ FuzzIdle

non_library == <<fuzz_state, inputs, driver, shared, locals, decisions, history, outcome,
                 store_state, handler, analyzer, locking>>

BuildTestUrl ==
    /\ p_call = "none"
    /\ p_ret' = build_test_url_result(p_base, p_word)
    /\ p_call' = "build"
    /\ UNCHANGED <<p_base, p_word, p_file, non_library>>

\* the same call once more
BuildTestUrlAgain ==
    /\ p_call = "build"
    /\ p_ret' = build_test_url_result(p_base, p_word)
    /\ p_call' = "built twice"
    /\ UNCHANGED <<p_base, p_word, p_file, non_library>>

BuildNext == BuildTestUrl \/ BuildTestUrlAgain

BuildSpec == BuildInit /\ [][BuildNext]_vars

(***************************************************************************)
(* C32. build_test_url(base, word) gives the same answer every time.  For  *)
(* a base that parses, the answer is the base with its path replaced by    *)
(* p' + w', where p' is the base's path with a slash appended unless it    *)
(* ends with one and w' is the word without its leading slashes; scheme,   *)
(* host and port are the base's.  For a base that does not parse the       *)
(* answer is an error.                                                     *)
(***************************************************************************)
BasePathSlash(b) ==
    LET p == IF b.path = <<>> THEN <<"/">> ELSE b.path
    IN  IF p[Len(p)] = "/" THEN p ELSE p \o <<"/">>

WordNoLeadingSlash(w) ==
    LET k == Cardinality({i \in 1 .. Len(w) : \A j \in 1 .. i : w[j] = "/"})
    IN  SubSeq(w, k + 1, Len(w))

C32_BuildTestUrl ==
    /\ [](p_call \in {"build", "built twice"} =>
            IF p_base.host = <<>> THEN ~p_ret.ok
            ELSE /\ p_ret.ok
                 /\ p_ret.url.path = BasePathSlash(p_base) \o WordNoLeadingSlash(p_word)
                 /\ p_ret.url.scheme = p_base.scheme
                 /\ p_ret.url.host = p_base.host
                 /\ p_ret.url.port = p_base.port)
    /\ [][p_call = "build" => p_ret' = p_ret]_vars

(***************************************************************************)
(* load_wordlist (rinzler-core/src/fuzz.rs 548-567).  A file is its text,  *)
(* a sequence of characters, or cannot be read.                            *)
(***************************************************************************)
MaxFileLen == 4

Whitespace == {" ", "\t", "\r", "\n"}

\* str::lines: the pieces between line feeds, each without its line feed and
\* without a carriage return before it; no last piece after a final line feed
RECURSIVE lines(_)
lines(content) ==
    IF content = <<>> THEN <<>>
    ELSE IF \A i \in 1 .. Len(content) : content[i] # "\n" THEN <<content>>
    ELSE LET k == CHOOSE i \in 1 .. Len(content) :
                      content[i] = "\n" /\ \A j \in 1 .. (i - 1) : content[j] # "\n"
             line == SubSeq(content, 1, k - 1)
         IN  <<IF line # <<>> /\ line[Len(line)] = "\r"
               THEN SubSeq(line, 1, Len(line) - 1) ELSE line>>
             \o lines(SubSeq(content, k + 1, Len(content)))

\* str::trim
RECURSIVE trim(_)
trim(line) ==
    IF line = <<>> THEN line
    ELSE IF Head(line) \in Whitespace THEN trim(Tail(line))
    ELSE IF line[Len(line)] \in Whitespace THEN trim(SubSeq(line, 1, Len(line) - 1))
    ELSE line

is_word_line_untrimmed(line) == line # <<>> /\ Head(line) # "#"

\* the two filters: not empty after trim, no '#' in front after trim
is_word_line(line) == trim(line) # <<>> /\ Head(trim(line)) # "#"

load_wordlist(file) ==
    IF ~file.readable THEN [ok |-> FALSE, words |-> <<>>, err |-> "Failed to read wordlist"]
    ELSE LET kept == SelectSeq(lines(file.content), is_word_line)
             words == [i \in 1 .. Len(kept) |-> trim(kept[i])]
         IN  IF words = <<>>
             THEN [ok |-> FALSE, words |-> <<>>,
                   err |-> "Wordlist is empty or contains only comments"]
             ELSE [ok |-> TRUE, words |-> words, err |-> "none"]

\* a list of words written one per line
RECURSIVE write_lines(_)
write_lines(words) ==
    IF words = <<>> THEN <<>>
    ELSE IF Len(words) = 1 THEN Head(words)
    ELSE Head(words) \o <<"\n">> \o write_lines(Tail(words))

FileChars == {"a", "#", " ", "\t", "\n"}
Unreadable == [readable |-> FALSE, content |-> <<>>]
WordlistFiles ==
    {Unreadable}
    \cup {[readable |-> TRUE, content |-> c] : c \in SeqsUpTo(FileChars, MaxFileLen)}

WordlistInit ==
    /\ p_call = "none"
    /\ p_file \in WordlistFiles
    /\ p_base = <<>>
    /\ p_word = <<>>
    /\ p_ret = <<>>
    /\ StoreEmpty /\ io_faults = 0
    /\ HandlerIdle
    /\ AnalyzerIdle
    /\ LockIdle
    /\ CrawlIdle
    /\ FuzzIdle

LoadWordlist ==
    /\ p_call = "none"
    /\ p_ret' = load_wordlist(p_file)
    /\ p_call' = "load"
    /\ UNCHANGED <<p_base, p_word, p_file, non_library>>

\* the list that was loaded is written to the file and loaded again
WriteAndReload ==
    /\ p_call = "load"
    /\ p_ret.ok
    /\ p_file' = [readable |-> TRUE, content |-> write_lines(p_ret.words)]
    /\ p_ret' = load_wordlist(p_file')
    /\ p_call' = "reload"
    /\ UNCHANGED <<p_base, p_word, non_library>>

WordlistNext == LoadWordlist \/ WriteAndReload

WordlistSpec == WordlistInit /\ [][WordlistNext]_vars

(***************************************************************************)
(* C33. load_wordlist returns, in file order, the trimmed text of every    *)
(* line that is neither blank nor a comment (its first character after     *)
(* the leading white space is '#'), and nothing else; it fails when no     *)
(* such line exists or the file cannot be read.  A list that was loaded,   *)
(* written back one word per line and loaded again comes back unchanged.   *)
(***************************************************************************)
Blank(line) == \A i \in 1 .. Len(line) : line[i] \in Whitespace
Comment(line) ==
    \E i \in 1 .. Len(line) : line[i] = "#" /\ \A j \in 1 .. (i - 1) : line[j] \in Whitespace
Inner(line) ==
    LET first == CHOOSE i \in 1 .. Len(line) :
                     line[i] \notin Whitespace /\ \A j \in 1 .. (i - 1) : line[j] \in Whitespace
        last == CHOOSE i \in 1 .. Len(line) :
                    line[i] \notin Whitespace /\ \A j \in (i + 1) .. Len(line) : line[j] \in Whitespace
    IN  SubSeq(line, first, last)

C33_LoadWordlist ==
    /\ [](p_call = "load" =>
            IF ~p_file.readable THEN ~p_ret.ok
            ELSE LET L == lines(p_file.content)
                     good == {i \in 1 .. Len(L) : ~Blank(L[i]) /\ ~Comment(L[i])}
                 IN  /\ p_ret.ok <=> good # {}
                     /\ Len(p_ret.words) = Cardinality(good)
                     /\ \A i \in good :
                           p_ret.words[Cardinality({j \in good : j <= i})] = Inner(L[i]))
    /\ [][p_call' = "reload" => p_ret' = p_ret]_vars

\* a comment, then a word with white space around it: one word is returned
C33_Witness ==
    /\ p_call = "load"
    /\ p_file.content = <<"#", "\n", " ", "a">>
    /\ p_ret.ok
    /\ p_ret.words = <<(<<"a">>)>>

\* two words were written back and came back as the same two words
C33_ReloadWitness ==
    /\ p_call = "reload"
    /\ p_ret.ok
    /\ Len(p_ret.words) = 2

(***************************************************************************)
(* C34. A fuzz worker takes its work from the front of its own queue.      *)
(* Only when it found its own queue empty does it turn to its peers: it    *)
(* goes through them in index order, leaving itself out, passes a peer     *)
(* only when that peer's queue is empty, and takes the back item of the    *)
(* first one whose queue is not.  Its own queue is empty all the while, so *)
(* no item leaves a queue except by its owner's pop from the front or by   *)
(* the steal of a worker that has no work of its own.                      *)
(***************************************************************************)
FirstPeer(w, from) == IF from = w THEN from + 1 ELSE from

OthersKeep(t) == \A u \in FWorkers \ {t} : f_queues'[u] = f_queues[u]

C34_WorkStealing ==
    /\ [](\A w \in DOMAIN fpc : fpc[w] = "steal" => f_queues[w] = <<>>)
    /\ [][\A w \in DOMAIN fpc :
            /\ (fpc[w] = "pop" /\ fpc'[w] = "request") =>
                  /\ f_queues[w] # <<>>
                  /\ f_item'[w] = Head(f_queues[w])
                  /\ f_queues'[w] = Tail(f_queues[w])
                  /\ OthersKeep(w)
            /\ (fpc[w] = "pop" /\ fpc'[w] = "steal") =>
                  /\ f_queues[w] = <<>>
                  /\ steal_i'[w] = FirstPeer(w, 0)
                  /\ f_queues' = f_queues
            /\ (fpc[w] = "steal" /\ fpc'[w] = "steal" /\ steal_i'[w] # steal_i[w]) =>
                  /\ f_queues[steal_i[w]] = <<>>
                  /\ steal_i'[w] = FirstPeer(w, steal_i[w] + 1)
                  /\ f_queues' = f_queues
            /\ (fpc[w] = "steal" /\ fpc'[w] = "request") =>
                  LET t == steal_i[w]
                      q == f_queues[t]
                  IN  /\ t \in FWorkers \ {w}
                      /\ q # <<>>
                      /\ f_item'[w] = q[Len(q)]
                      /\ f_queues'[t] = SubSeq(q, 1, Len(q) - 1)
                      /\ OthersKeep(t)
            /\ (fpc[w] = "steal" /\ fpc'[w] = "scan") =>
                  /\ steal_i[w] >= f_threads
                  /\ f_queues' = f_queues]_vars
    /\ [][\A t \in DOMAIN f_queues :
            (t \in DOMAIN f_queues' /\ Len(f_queues'[t]) < Len(f_queues[t])) =>
                \E w \in FWorkers :
                    /\ fpc'[w] = "request"
                    /\ \/ w = t /\ fpc[w] = "pop"
                       \/ w # t /\ fpc[w] = "steal" /\ f_queues[w] = <<>>]_vars

\* Worker 2, which was given nothing, holds /b: it found worker 0's queue
\* empty and took the item from worker 1.
C34_Witness ==
    /\ fdpc = "join"
    /\ f_threads = StealWorkers
    /\ fpc[2] = "request"
    /\ f_item[2].url = FUrl(HostB, <<"/", "b">>, <<>>)

\* Worker 0 has put /a/a and /a/b on its queue and a peer holds /a/b, the
\* back item, while /a/a is still queued.
C34_BackWitness ==
    /\ fdpc = "join"
    /\ \E w \in FWorkers \ {0} :
          /\ fpc[w] = "request"
          /\ f_item[w].url = FUrl(HostB, <<"/", "a", "/", "b">>, <<>>)
    /\ Len(f_queues[0]) = 1
    /\ f_queues[0][1].url = FUrl(HostB, PathAA, <<>>)

(***************************************************************************)
(* C35. The seed is put in worker 0's queue only.  When a worker           *)
(* distributes the links of a page it starts with target worker 0; a link  *)
(* that is not in visited is appended as (url, depth + 1) to the back of   *)
(* the target worker's queue and moves the target on by one modulo the     *)
(* number of workers; a link that is in visited is not enqueued and leaves *)
(* the target where it is.  So the k-th admitted link of a page goes to    *)
(* worker k mod N.                                                         *)
(***************************************************************************)
C35_RoundRobin ==
    /\ [][(dpc = "call" /\ dpc' = "join") =>
            \A w \in DOMAIN worker_queues' :
                worker_queues'[w] =
                    IF w = 0 THEN <<[url |-> urls[idx], depth |-> 0]>> ELSE <<>>]_vars
    /\ [][\A w \in DOMAIN pc :
            /\ (pc[w] \notin {"visit", "enqueue"} /\ pc'[w] = "visit") =>
                  target_worker'[w] = 0
            /\ (pc[w] = "visit" /\ pc'[w] = "enqueue") =>
                  /\ Head(new_urls[w]) \notin visited
                  /\ worker_queues' = worker_queues
                  /\ target_worker'[w] = target_worker[w]
            /\ (pc[w] = "visit" /\ pc'[w] # "enqueue" /\ new_urls'[w] # new_urls[w]) =>
                  /\ Head(new_urls[w]) \in visited
                  /\ worker_queues' = worker_queues
                  /\ target_worker'[w] = target_worker[w]
            /\ (pc[w] = "enqueue" /\ pc'[w] # "enqueue") =>
                  LET t == target_worker[w] IN
                  /\ t \in Workers
                  /\ worker_queues'[t] =
                        Append(worker_queues[t],
                               [url |-> Head(new_urls[w]), depth |-> item[w].depth + 1])
                  /\ \A u \in Workers \ {t} : worker_queues'[u] = worker_queues[u]
                  /\ target_worker'[w] = (t + 1) % threads]_vars

\* Two workers, the page / with the links /1, /2, /1 and /#...: /1 went to
\* worker 0 and /2 to worker 1, the second /1 was passed over and the target
\* is worker 0 again for the last link.
C35_Witness ==
    /\ threads = 2
    /\ site = 1
    /\ pc[0] = "visit"
    /\ item[0] = [url |-> Url(HostB, "/"), depth |-> 0]
    /\ Len(new_urls[0]) = 1
    /\ target_worker[0] = 0
    /\ worker_queues[0] = <<[url |-> Url(HostB, "/1"), depth |-> 1]>>
    /\ worker_queues[1] = <<[url |-> Url(HostB, "/2"), depth |-> 1]>>

(***************************************************************************)
(* C36. A seed written without a path, http://host, is the URL             *)
(* http://host/ for the visited set: a link back to / is not admitted, not *)
(* enqueued and not fetched, so the seed's page is fetched once.           *)
(***************************************************************************)
C36_SeedWithoutPath ==
    \A i \in DOMAIN urls :
        (ParseOk(urls[i]) /\ urls[i].path = "") =>
            LET root == UrlParse(urls[i]) IN
            /\ root \notin visited
            /\ EnqCount(root) = 0
            /\ FetchCount(urls[i]) + FetchCount(root) <= 1

(***************************************************************************)
(* C37. In follow mode Auto the crawler that execute_crawl builds          *)
(* (auto_follow false, a callback that always answers true) admits every   *)
(* href of a page that resolves to an absolute URL, whatever its host, in  *)
(* page order; a crawler with auto_follow true admits exactly the same     *)
(* links, and the user is never asked.                                     *)
(***************************************************************************)
AllResolved(url) ==
    LET hrefs == PageLinks(site, UrlParse(url))
    IN  SelectSeq([i \in 1 .. Len(hrefs) |-> resolve_url_static(url, hrefs[i])],
                  LAMBDA u : u # NoUrl)

C37_AutoAdmitsAll ==
    (auto_follow \/ follow_mode = "Auto") =>
        /\ \A w \in DOMAIN pc :
              /\ pc[w] # "extract"
              /\ pc[w] \in {"store", "push"} =>
                    links[w] \in {<<>>, AllResolved(item[w].url)}
        /\ \A r \in Range(results) : r.links_found \in {<<>>, AllResolved(r.url)}
        /\ oracle_calls = << >>
        /\ approved = {} /\ denied = {}

\* execute_crawl's Auto crawler has parsed the root of site 2 and kept the
\* subdomain, the local page and the look-alike host, has fetched the
\* look-alike host and has admitted the foreign host that the subdomain's
\* page links to.
C37_Witness ==
    /\ ~auto_follow
    /\ follow_mode = "Auto"
    /\ \E r \in Range(results) :
          /\ r.url = Url(HostB, "/")
          /\ r.links_found = <<Url(HostSub, "/"), Url(HostB, "/1"), Url(HostLook, "/")>>
    /\ \E r \in Range(results) : r.url = Url(HostLook, "/")
    /\ Url(HostX, "/") \in visited

\* the same page under a crawler with auto_follow = true and a callback
\* that would refuse
C37_AutoFollowWitness ==
    /\ auto_follow
    /\ follow_mode = "Disabled"
    /\ \E r \in Range(results) :
          /\ r.url = Url(HostB, "/")
          /\ r.links_found = <<Url(HostSub, "/"), Url(HostB, "/1"), Url(HostLook, "/")>>
    /\ \E r \in Range(results) : r.url = Url(HostLook, "/")
    /\ Url(HostX, "/") \in visited

(***************************************************************************)
(* C38. No item of a fuzz worker queue is lost or processed twice.  Every  *)
(* item that was put on a queue - the initial ones and the ones of every   *)
(* expanded base - is either still on a queue or was taken off by one      *)
(* worker, which sent its request; a worker that is past the pop holds the *)
(* item it took; and when execute_fuzz returns every queue is empty and    *)
(* every item has been requested once.                                     *)
(***************************************************************************)
InitialItems ==
    LET db_endpoints == IF db_path = "Some" THEN query_database_endpoints(db_rows, base_urls)
                        ELSE <<>>
        with_source == [i \in 1 .. Len(db_endpoints) |->
                           [url |-> db_endpoints[i], source |-> "Database"]]
                       \o [i \in 1 .. Len(base_urls) |->
                              [url |-> base_urls[i], source |-> "Initial"]]
    IN  UrlsToTest(ParsedPrefix(with_source), wordlist)

Holding == {"request", "hit", "expand"}

C38_EveryItemOnce ==
    fdpc \in {"join", "ok"} =>
        LET initial == InitialItems
            discovered == {<<bw, build_test_url(bw[1], wordlist[bw[2]])>> :
                              bw \in tested_urls \X (1 .. Len(wordlist))}
            queued == UNION {{<<w, i>> : i \in 1 .. Len(f_queues[w])} : w \in FWorkers}
            fuzz_urls == {initial[i].url : i \in 1 .. Len(initial)}
                         \cup {d[2] : d \in discovered}
                         \cup {e.url : e \in DOMAIN req_log}
                         \cup {f_queues[q[1]][q[2]].url : q \in queued}
            Pushed(u) == Cardinality({i \in 1 .. Len(initial) : initial[i].url = u})
                         + Cardinality({d \in discovered : d[2] = u})
            Queued(u) == Cardinality({q \in queued : f_queues[q[1]][q[2]].url = u})
            Requested(u) == SumOver(req_log, {e \in DOMAIN req_log : e.url = u})
        IN  /\ \A u \in fuzz_urls : Pushed(u) = Requested(u) + Queued(u)
            /\ \A w \in FWorkers :
                  fpc[w] \in Holding =>
                      /\ f_item[w] # NoFItem
                      /\ [w |-> w, url |-> f_item[w].url] \in DOMAIN req_log
            /\ \A w, v \in FWorkers :
                  (w # v /\ fpc[w] \in Holding /\ fpc[v] \in Holding
                         /\ f_item[w].url = f_item[v].url) => Pushed(f_item[w].url) >= 2
            /\ fdpc = "ok" =>
                  /\ \A w \in FWorkers : f_queues[w] = <<>>
                  /\ \A u \in fuzz_urls : Requested(u) = Pushed(u)

\* Three workers have returned: the two initial items and the two of the
\* expanded base /a were each requested once, one of them by worker 2, which
\* can only steal.
C38_Witness ==
    /\ fdpc = "ok"
    /\ f_threads = StealWorkers
    /\ tested_urls # {}
    /\ SumOver(req_log, DOMAIN req_log) = 4
    /\ \E e \in DOMAIN req_log : e.w = 2


(***************************************************************************)
(* The mutexes of Crawler::crawl and execute_fuzz.  Every lock().await is  *)
(* a step of its own: the task waits at the site until the mutex is free,  *)
(* runs the statements under the guard, and drops the guard.  The queues   *)
(* are followed by their lengths; what a request returns and whether a URL *)
(* or base was seen before are the environment's choice.                   *)
(***************************************************************************)
LockWorkers == 2
LockItems == 2
LockWords == 2
LockLinks == 2
LockBudget == 2

LWorkers == 0 .. (LockWorkers - 1)
MainTask == LockWorkers
Tasks == LWorkers \cup {MainTask}

QueueLock(i) == <<"queue", i>>
VisitedLock == <<"visited", 0>>
ResultsLock == <<"results", 0>>
TestedLock == <<"tested_urls", 0>>
HitsLock == <<"hits_display", 0>>
Locks == {QueueLock(i) : i \in LWorkers}
         \cup {VisitedLock, ResultsLock, TestedLock, HitsLock}

\* The mutex each lock().await site asks for.
Wants(t) ==
    CASE l_pc[t] \in {"own", "expand", "c_own"} -> QueueLock(t)
      [] l_pc[t] \in {"steal", "scan", "c_scan", "c_push"} -> QueueLock(l_idx[t])
      [] l_pc[t] \in {"results", "results_hit", "c_results", "m_results"} -> ResultsLock
      [] l_pc[t] \in {"hits", "hits_pb"} -> HitsLock
      [] l_pc[t] = "tested" -> TestedLock
      [] l_pc[t] \in {"c_visited", "m_visited"} -> VisitedLock
      [] l_pc[t] = "m_seed" -> QueueLock(0)

LockSites == {"own", "expand", "c_own", "steal", "scan", "c_scan", "c_push", "results",
              "results_hit", "c_results", "m_results", "hits", "hits_pb", "tested",
              "c_visited", "m_visited", "m_seed"}

Held(t) == {k \in Locks : l_owner[k] = t}
Waiting(t) == l_pc[t] \in LockSites /\ ~l_in[t]

LockInit ==
    /\ l_cmd \in {"crawl", "fuzz"}
    /\ l_bars \in BOOLEAN
    /\ l_owner = [k \in Locks |-> Free]
    /\ l_pc = [t \in Tasks |-> IF t = MainTask
                               THEN (IF l_cmd = "crawl" THEN "m_visited" ELSE "m_dist")
                               ELSE "unspawned"]
    /\ l_in = [t \in Tasks |-> FALSE]
    /\ l_idx = [t \in Tasks |-> 0]
    /\ l_len = [i \in LWorkers |-> 0]
    /\ l_todo = [t \in Tasks |-> 0]
    /\ l_empty = [t \in Tasks |-> 0]
    /\ l_budget \in 1 .. LockBudget
    /\ l_order = {}
    /\ StoreEmpty /\ io_faults = 0
    /\ HandlerIdle
    /\ AnalyzerIdle
    /\ LibraryIdle
    /\ CrawlIdle
    /\ FuzzIdle

non_locking == <<fuzz_state, inputs, driver, shared, locals, decisions, history, outcome,
                 store_state, handler, analyzer, library>>

\* Mutex::lock().await returns the guard once no task holds the mutex.
lock_await(t) ==
    /\ Waiting(t)
    /\ l_owner[Wants(t)] = Free
    /\ l_owner' = [l_owner EXCEPT ![Wants(t)] = t]
    /\ l_in' = [l_in EXCEPT ![t] = TRUE]
    /\ l_order' = l_order \cup {<<k, Wants(t), t>> : k \in Held(t)}
    /\ UNCHANGED <<l_cmd, l_bars, l_pc, l_idx, l_len, l_todo, l_empty, l_budget, non_locking>>

drop_leaked(owner, k) == owner

\* The guard goes out of scope: the mutex is free again.
drop(owner, k) == [owner EXCEPT ![k] = Free]

\* The task leaves the section for its next position.
Go(t, at) ==
    /\ l_pc' = [l_pc EXCEPT ![t] = at]
    /\ l_in' = [l_in EXCEPT ![t] = FALSE]

InSection(t, sites) == l_pc[t] \in sites /\ l_in[t]

l_same == <<l_cmd, l_bars, l_order, non_locking>>

\* Crawler::crawl before the workers: visited.insert(start_url).
LMainVisited ==
    /\ InSection(MainTask, {"m_visited"})
    /\ l_owner' = drop(l_owner, VisitedLock)
    /\ Go(MainTask, "m_seed")
    /\ UNCHANGED <<l_idx, l_len, l_todo, l_empty, l_budget, l_same>>

\* worker_queues[0].push_back((start_url, 0)), then every worker is spawned.
LMainSeed ==
    /\ InSection(MainTask, {"m_seed"})
    /\ l_owner' = drop(l_owner, QueueLock(0))
    /\ l_len' = [l_len EXCEPT ![0] = 1]
    /\ l_pc' = [t \in Tasks |-> IF t = MainTask THEN "m_join" ELSE "c_own"]
    /\ l_in' = [l_in EXCEPT ![MainTask] = FALSE]
    /\ UNCHANGED <<l_idx, l_todo, l_empty, l_budget, l_same>>

\* execute_fuzz before the workers: item idx goes to queue idx % threads
\* through try_lock().unwrap(), then every worker is spawned.
LMainDistribute ==
    /\ l_pc[MainTask] = "m_dist"
    /\ \A i \in LWorkers : l_owner[QueueLock(i)] = Free
    /\ \E n \in 1 .. LockItems :
          l_len' = [i \in LWorkers |->
                       Cardinality({j \in 0 .. (n - 1) : j % LockWorkers = i})]
    /\ l_pc' = [t \in Tasks |-> IF t = MainTask THEN "m_join" ELSE "own"]
    /\ UNCHANGED <<l_owner, l_in, l_idx, l_todo, l_empty, l_budget, l_same>>

\* Every worker task is joined.
LMainJoin ==
    /\ l_pc[MainTask] = "m_join"
    /\ \A w \in LWorkers : l_pc[w] = "done"
    /\ Go(MainTask, "m_results")
    /\ UNCHANGED <<l_owner, l_idx, l_len, l_todo, l_empty, l_budget, l_same>>

\* results.lock().await.clone() is returned.
LMainResults ==
    /\ InSection(MainTask, {"m_results"})
    /\ l_owner' = drop(l_owner, ResultsLock)
    /\ Go(MainTask, "m_done")
    /\ UNCHANGED <<l_idx, l_len, l_todo, l_empty, l_budget, l_same>>

\* try_steal_fuzz_work's loop from target i on; past the last target the
\* worker calls all_fuzz_queues_empty.
StealFrom(w, i) ==
    IF i >= LockWorkers
    THEN Go(w, "scan") /\ l_idx' = [l_idx EXCEPT ![w] = 0]
    ELSE Go(w, "steal") /\ l_idx' = [l_idx EXCEPT ![w] = i]

\* The fuzz worker's own queue: pop_front().
LFuzzOwn(w) ==
    /\ InSection(w, {"own"})
    /\ l_owner' = drop(l_owner, QueueLock(w))
    /\ IF l_len[w] > 0 THEN
           /\ l_len' = [l_len EXCEPT ![w] = @ - 1]
           /\ Go(w, "request")
           /\ UNCHANGED l_idx
       ELSE
           /\ StealFrom(w, IF w = 0 THEN 1 ELSE 0)
           /\ UNCHANGED l_len
    /\ UNCHANGED <<l_todo, l_empty, l_budget, l_same>>

\* try_steal_fuzz_work under the target's guard: pop_back().
LFuzzSteal(w) ==
    /\ InSection(w, {"steal"})
    /\ l_owner' = drop(l_owner, QueueLock(l_idx[w]))
    /\ IF l_len[l_idx[w]] > 0 THEN
           /\ l_len' = [l_len EXCEPT ![l_idx[w]] = @ - 1]
           /\ Go(w, "request")
           /\ UNCHANGED l_idx
       ELSE
           /\ StealFrom(w, next_steal_target(w, l_idx[w]))
           /\ UNCHANGED l_len
    /\ UNCHANGED <<l_todo, l_empty, l_budget, l_same>>

\* all_fuzz_queues_empty under one queue's guard: is_empty().
LFuzzScan(w) ==
    /\ InSection(w, {"scan"})
    /\ l_owner' = drop(l_owner, QueueLock(l_idx[w]))
    /\ IF l_len[l_idx[w]] > 0 THEN
           Go(w, "own") /\ l_idx' = [l_idx EXCEPT ![w] = 0]
       ELSE IF l_idx[w] + 1 < LockWorkers THEN
           Go(w, "scan") /\ l_idx' = [l_idx EXCEPT ![w] = @ + 1]
       ELSE
           Go(w, "done") /\ l_idx' = [l_idx EXCEPT ![w] = 0]
    /\ UNCHANGED <<l_len, l_todo, l_empty, l_budget, l_same>>

\* make_fuzz_request: an error or a status from 500 on loops; a status below
\* 500 is pushed on results, and from 200 to 399 it is a hit.
LFuzzRequest(w) ==
    /\ l_pc[w] = "request"
    /\ \E next \in {"own", "results", "results_hit"} : Go(w, next)
    /\ UNCHANGED <<l_owner, l_idx, l_len, l_todo, l_empty, l_budget, l_same>>

\* results.lock().await.push(result.clone())
LFuzzResults(w) ==
    /\ InSection(w, {"results", "results_hit"})
    /\ l_owner' = drop(l_owner, ResultsLock)
    /\ Go(w, IF l_pc[w] = "results_hit" THEN "hits" ELSE "own")
    /\ UNCHANGED <<l_idx, l_len, l_todo, l_empty, l_budget, l_same>>

\* hits_display.lock().await.push(hit_display); with a hits bar the list is
\* locked once more to format it.
LFuzzHits(w) ==
    /\ InSection(w, {"hits", "hits_pb"})
    /\ l_owner' = drop(l_owner, HitsLock)
    /\ Go(w, IF l_pc[w] = "hits" /\ l_bars THEN "hits_pb" ELSE "tested")
    /\ UNCHANGED <<l_idx, l_len, l_todo, l_empty, l_budget, l_same>>

\* Under the tested_urls guard: a base seen before ends the block; a new one
\* is inserted and the worker asks for its own queue with the guard held.
LFuzzTested(w) ==
    /\ InSection(w, {"tested"})
    /\ \/ /\ l_owner' = drop(l_owner, TestedLock)
          /\ Go(w, "own")
          /\ UNCHANGED l_budget
       \/ /\ l_budget > 0
          /\ l_budget' = l_budget - 1
          /\ Go(w, "expand")
          /\ UNCHANGED l_owner
    /\ UNCHANGED <<l_idx, l_len, l_todo, l_empty, l_same>>

\* One push_back per word on the own queue; its guard is dropped at the end
\* of the inner block and the tested_urls guard at the end of the outer.
LFuzzExpand(w) ==
    /\ InSection(w, {"expand"})
    /\ l_len' = [l_len EXCEPT ![w] = @ + LockWords]
    /\ l_owner' = drop(l_owner, QueueLock(w))
    /\ l_pc' = [l_pc EXCEPT ![w] = "tested_end"]
    /\ UNCHANGED <<l_in, l_idx, l_todo, l_empty, l_budget, l_same>>

LFuzzTestedEnd(w) ==
    /\ InSection(w, {"tested_end"})
    /\ l_owner' = drop(l_owner, TestedLock)
    /\ Go(w, "own")
    /\ UNCHANGED <<l_idx, l_len, l_todo, l_empty, l_budget, l_same>>

\* The crawl worker's own queue: pop_front(); an item at the depth limit is
\* skipped.
LCrawlOwn(w) ==
    /\ InSection(w, {"c_own"})
    /\ l_owner' = drop(l_owner, QueueLock(w))
    /\ IF l_len[w] > 0 THEN
           /\ l_len' = [l_len EXCEPT ![w] = @ - 1]
           /\ l_empty' = [l_empty EXCEPT ![w] = 0]
           /\ \E next \in {"c_own", "c_fetch"} : Go(w, next)
           /\ UNCHANGED l_idx
       ELSE
           /\ Go(w, "c_scan")
           /\ l_idx' = [l_idx EXCEPT ![w] = 0]
           /\ UNCHANGED <<l_len, l_empty>>
    /\ UNCHANGED <<l_todo, l_budget, l_same>>

\* all_queues_empty under one queue's guard: is_empty().
LCrawlScan(w) ==
    /\ InSection(w, {"c_scan"})
    /\ l_owner' = drop(l_owner, QueueLock(l_idx[w]))
    /\ IF l_len[l_idx[w]] > 0 THEN
           /\ Go(w, "c_own")
           /\ l_empty' = [l_empty EXCEPT ![w] = 0]
           /\ l_idx' = [l_idx EXCEPT ![w] = 0]
       ELSE IF l_idx[w] + 1 < LockWorkers THEN
           /\ Go(w, "c_scan")
           /\ l_idx' = [l_idx EXCEPT ![w] = @ + 1]
           /\ UNCHANGED l_empty
       ELSE
           /\ Go(w, IF l_empty[w] + 1 >= MAX_EMPTY_ITERATIONS THEN "done" ELSE "c_own")
           /\ l_empty' = [l_empty EXCEPT ![w] = @ + 1]
           /\ l_idx' = [l_idx EXCEPT ![w] = 0]
    /\ UNCHANGED <<l_len, l_todo, l_budget, l_same>>

\* fetch_and_parse_static: an error loops; a page comes with its new_urls.
LCrawlFetch(w) ==
    /\ l_pc[w] = "c_fetch"
    /\ \/ Go(w, "c_own") /\ UNCHANGED l_todo
       \/ \E n \in 0 .. LockLinks :
             Go(w, "c_results") /\ l_todo' = [l_todo EXCEPT ![w] = n]
    /\ UNCHANGED <<l_owner, l_idx, l_len, l_empty, l_budget, l_same>>

\* After one of new_urls: the next one, or the worker's loop again.
NextLink(w) ==
    /\ l_todo' = [l_todo EXCEPT ![w] = @ - 1]
    /\ Go(w, IF l_todo[w] > 1 THEN "c_visited" ELSE "c_own")

\* results_lock.push(crawl_result); the distribution starts at target 0.
LCrawlResults(w) ==
    /\ InSection(w, {"c_results"})
    /\ l_owner' = drop(l_owner, ResultsLock)
    /\ l_idx' = [l_idx EXCEPT ![w] = 0]
    /\ Go(w, IF l_todo[w] > 0 THEN "c_visited" ELSE "c_own")
    /\ UNCHANGED <<l_len, l_todo, l_empty, l_budget, l_same>>

\* The check-and-mark block under the visited guard, which is dropped before
\* the target's queue is asked for.
LCrawlVisited(w) ==
    /\ InSection(w, {"c_visited"})
    /\ l_owner' = drop(l_owner, VisitedLock)
    /\ \/ /\ NextLink(w)
          /\ UNCHANGED l_budget
       \/ /\ l_budget > 0
          /\ l_budget' = l_budget - 1
          /\ Go(w, "c_push")
          /\ UNCHANGED l_todo
    /\ UNCHANGED <<l_idx, l_len, l_empty, l_same>>

\* queue.push_back((new_url, depth + 1)); drop(queue); the target moves on.
LCrawlPush(w) ==
    /\ InSection(w, {"c_push"})
    /\ l_owner' = drop(l_owner, QueueLock(l_idx[w]))
    /\ l_len' = [l_len EXCEPT ![l_idx[w]] = @ + 1]
    /\ l_idx' = [l_idx EXCEPT ![w] = (@ + 1) % LockWorkers]
    /\ NextLink(w)
    /\ UNCHANGED <<l_empty, l_budget, l_same>>

LockNext ==
    \/ \E t \in Tasks : lock_await(t)
    \/ LMainVisited
    \/ LMainSeed
    \/ LMainDistribute
    \/ LMainJoin
    \/ LMainResults
    \/ \E w \in LWorkers :
          \/ LFuzzOwn(w)
          \/ LFuzzSteal(w)
          \/ LFuzzScan(w)
          \/ LFuzzRequest(w)
          \/ LFuzzResults(w)
          \/ LFuzzHits(w)
          \/ LFuzzTested(w)
          \/ LFuzzExpand(w)
          \/ LFuzzTestedEnd(w)
          \/ LCrawlOwn(w)
          \/ LCrawlScan(w)
          \/ LCrawlFetch(w)
          \/ LCrawlResults(w)
          \/ LCrawlVisited(w)
          \/ LCrawlPush(w)

LockSpec == LockInit /\ [][LockNext]_vars

\* C39: the crawler and the fuzzer are free of lock deadlock.  Whenever a
\* task waits for a mutex, some waiting task's mutex is free, or is held by a
\* task that is not waiting itself but running the statements under its
\* guard, after which it drops it.  A task holds two mutexes at most, and
\* two only in the fuzzer's hit expansion: tested_urls first, then its own
\* queue.  No task asks for any mutex while it holds a queue, so none takes a
\* queue and then tested_urls, visited or results.
C39_NoLockDeadlock ==
    l_cmd # "none" =>
        /\ (\E t \in Tasks : Waiting(t)) =>
              \E t \in Tasks :
                 /\ Waiting(t)
                 /\ \/ l_owner[Wants(t)] = Free
                    \/ /\ l_owner[Wants(t)] # t
                       /\ l_in[l_owner[Wants(t)]]
        /\ \A t \in Tasks :
              /\ Cardinality(Held(t)) <= 2
              /\ Cardinality(Held(t)) = 2 =>
                    /\ l_cmd = "fuzz"
                    /\ t \in LWorkers
                    /\ l_pc[t] = "expand"
                    /\ Held(t) = {TestedLock, QueueLock(t)}
              /\ (Waiting(t) /\ Held(t) # {}) =>
                    Held(t) = {TestedLock} /\ Wants(t) = QueueLock(t)
              /\ (Held(t) # {} /\ ~Waiting(t)) => l_in[t]
        /\ \A o \in l_order : o[1] = TestedLock /\ o[2] = QueueLock(o[3])

\* A fuzz worker holds tested_urls and waits for its own queue while a thief
\* holds that queue.
C39_Witness ==
    /\ l_cmd = "fuzz"
    /\ l_pc[0] = "expand" /\ ~l_in[0]
    /\ l_owner[TestedLock] = 0
    /\ l_owner[QueueLock(0)] = 1
    /\ l_pc[1] = "steal"

\* A crawl worker waits to push a link on a queue that the other worker
\* holds, and the crawl ends.
C39_CrawlWitness ==
    /\ l_cmd = "crawl"
    /\ l_pc[0] = "c_push" /\ ~l_in[0] /\ l_idx[0] = 1
    /\ l_owner[QueueLock(1)] = 1

\* The expansion is over: both guards were taken in order and dropped, and
\* every task has ended.
C39_DoneWitness ==
    /\ l_cmd = "fuzz"
    /\ l_order # {}
    /\ l_pc[MainTask] = "m_done"
    /\ \A k \in Locks : l_owner[k] = Free


(***************************************************************************)
(* C40. In follow mode Prompt without progress bars, which is what         *)
(* handle_crawl passes, the callback answers false for every cross-domain  *)
(* URL without asking the user and records the URL's domain as denied.     *)
(* The links of every page are then the links a Disabled crawl keeps: the  *)
(* hrefs that resolve into the base domain, in page order.  In every mode  *)
(* no domain is both approved and denied.                                  *)
(***************************************************************************)
DisabledLinks(url) ==
    SelectSeq(AllResolved(url), LAMBDA u : is_same_domain_static(u, base_domain))

PromptWithoutBars == follow_mode = "Prompt" /\ ~show_progress_bars /\ ~auto_follow

CallbackReturns(w) ==
    /\ pc[w] = "extract"
    /\ <<pc[w], href_i[w], decisions_lock>> # <<pc'[w], href_i'[w], decisions_lock'>>

C40_PromptWithoutBars ==
    /\ [](approved \cap denied = {})
    /\ [](PromptWithoutBars =>
            /\ oracle_calls = << >>
            /\ approved = {}
            /\ decisions_lock = Free
            /\ \A w \in DOMAIN pc :
                  /\ pc[w] # "prompt"
                  /\ pc[w] \in {"store", "push"} =>
                        links[w] \in {<<>>, DisabledLinks(item[w].url)}
            /\ \A u \in visited : u \in Range(urls) \/ UrlParse(u).host \notin denied)
    /\ [][(PromptWithoutBars /\ Len(results') > Len(results)) =>
             LET r == results'[Len(results')]
             IN  r.links_found \in {<<>>, DisabledLinks(r.url)}]_vars
    /\ [][\A w \in DOMAIN pc :
             (PromptWithoutBars /\ CallbackReturns(w)) =>
                 LET href == PageLinks(site, UrlParse(item[w].url))[href_i[w]]
                     absolute_url == resolve_url_static(item[w].url, href)
                 IN  /\ absolute_url.host \in denied'
                     /\ absolute_url \notin Range(links'[w])
                     /\ oracle_calls' = oracle_calls]_vars

\* A Prompt crawl without progress bars has parsed the root of site 2, kept
\* the subdomain and the local page, and denied the look-alike host; the
\* subdomain's page, which links to the foreign host twice, is parsed too.
C40_Witness ==
    /\ PromptWithoutBars
    /\ site = 2
    /\ \E r \in Range(results) :
          r.url = Url(HostB, "/") /\ r.links_found = <<Url(HostSub, "/"), Url(HostB, "/1")>>
    /\ HostLook \in denied
    /\ HostX \in denied
    /\ \E r \in Range(results) : r.url # Url(HostB, "/") /\ r.links_found = <<>>
                                  /\ DisabledLinks(r.url) = <<>>
                                  /\ AllResolved(r.url) # <<>>

=============================================================================
